---- MODULE Spec2Model ----
(***************************************************************************)
(* Chart rendering engine of phone-usage-slack-reporter                    *)
(* (src/utils/chart-generator.ts): the d3 scales the renderers build, what *)
(* each renderer draws on its canvas, and the output sink that names and   *)
(* writes the PNG file.                                                    *)
(*                                                                         *)
(* Pixel coordinates and scale values are exact rationals <<n, d>> with    *)
(* d > 0 in lowest terms.  IEEE-754 rounding is kept where it changes a    *)
(* result: the product max * 1.1 can lie one ulp above 11*max/10, which    *)
(* moves the "nice" upper bound of the scale (100 * 1.1 gives a domain of  *)
(* [0, 120], not [0, 110]).  Elsewhere the rounding error of a double      *)
(* (below 1e-12 px) is not modelled.                                       *)
(***************************************************************************)
EXTENDS Integers, Sequences, FiniteSets, TLC

(***************************************************************************)
(* Rational arithmetic                                                     *)
(***************************************************************************)
Abs(n) == IF n < 0 THEN -n ELSE n

RECURSIVE GCD(_, _)
GCD(a, b) == IF b = 0 THEN a ELSE GCD(b, a % b)

\* The rational n/d in lowest terms with a positive denominator, g the
\* greatest common divisor of |n| and |d|.
QNorm(n, d, g) ==
  <<(IF d < 0 THEN -1 ELSE 1) * (IF n < 0 THEN -(Abs(n) \div g) ELSE Abs(n) \div g),
    Abs(d) \div g>>

Q(n, d) == QNorm(n, d, GCD(Abs(n), Abs(d)))

QInt(n) == <<n, 1>>
QAdd(a, b) == Q(a[1] * b[2] + b[1] * a[2], a[2] * b[2])
QSub(a, b) == Q(a[1] * b[2] - b[1] * a[2], a[2] * b[2])
QMul(a, b) == Q(a[1] * b[1], a[2] * b[2])
QDiv(a, b) == Q(a[1] * b[2], a[2] * b[1])
QNeg(a) == <<-a[1], a[2]>>
QLe(a, b) == a[1] * b[2] <= b[1] * a[2]
QLt(a, b) == a[1] * b[2] < b[1] * a[2]
QAbs(a) == <<Abs(a[1]), a[2]>>
\* Math.floor and Math.ceil of a rational.
QFloor(a) == IF a[1] >= 0 THEN a[1] \div a[2] ELSE -((-a[1] + a[2] - 1) \div a[2])
QCeil(a) == -QFloor(QNeg(a))

RECURSIVE QSum(_)
QSum(s) == IF s = <<>> THEN QInt(0) ELSE QAdd(Head(s), QSum(Tail(s)))

RECURSIVE Pow10(_)
Pow10(k) == IF k = 0 THEN 1 ELSE 10 * Pow10(k - 1)

\* 10^p as a rational, p of either sign.
QPow10(p) == IF p >= 0 THEN QInt(Pow10(p)) ELSE Q(1, Pow10(-p))

(***************************************************************************)
(* Layout constants                                                        *)
(***************************************************************************)
width == 800
height == 400
marginTop == 50
marginRight == 80
marginBottom == 60
marginLeft == 60
innerWidth == width - marginLeft - marginRight
innerHeight == height - marginTop - marginBottom

(***************************************************************************)
(* d3-array: tickIncrement and ticks, as d3.scaleLinear uses them          *)
(***************************************************************************)
PowerRange == -4 .. 4

\* tickSpec(0, stop, count) for stop > 0: the decimal power and the factor
\* (1, 2, 5 or 10) of the tick step: power = floor(log10(step)), and the
\* factor from error = step / 10^power against sqrt(50), sqrt(10), sqrt(2).
TickPower(step) ==
  CHOOSE p \in PowerRange : QLe(QPow10(p), step) /\ QLt(step, QPow10(p + 1))

TickFactor(error) ==
  IF error[1] * error[1] >= 50 * error[2] * error[2] THEN 10
  ELSE IF error[1] * error[1] >= 10 * error[2] * error[2] THEN 5
  ELSE IF error[1] * error[1] >= 2 * error[2] * error[2] THEN 2 ELSE 1

TickSpecOf(step, power) ==
  [power |-> power, factor |-> TickFactor(QDiv(step, QPow10(power)))]

TickSpec(stop, count) ==
  TickSpecOf(QDiv(stop, QInt(count)), TickPower(QDiv(stop, QInt(count))))

\* The tick step a TickSpec stands for: factor * 10^power.
TickStep(t) == QMul(QInt(t.factor), QPow10(t.power))

\* The multiples 0, inc, 2 inc, ... of the tick step up to |stop|, negated
\* for a negative stop.
TicksBy(stop, inc) ==
  [i \in 1 .. QFloor(QDiv(QAbs(stop), inc)) + 1 |->
     IF stop[1] < 0 THEN QNeg(QMul(QInt(i - 1), inc))
     ELSE QMul(QInt(i - 1), inc)]

\* d3.ticks(0, stop, count); stop = 0 gives the single tick 0, a negative
\* stop the mirrored ticks from 0 downwards.
Ticks(stop, count) ==
  IF stop[1] = 0 THEN <<QInt(0)>>
  ELSE TicksBy(stop, TickStep(TickSpec(QAbs(stop), count)))

(***************************************************************************)
(* d3-scale: scaleLinear().domain([0, stop]).nice().range([innerHeight,0]) *)
(***************************************************************************)
NiceMaxIter == 10
NiceCount == 10
TickCount == 5

\* The loop of nice(): extend stop to a multiple of the tick step until the
\* step no longer changes; give up (domain unchanged) after NiceMaxIter
\* rounds.  above = the double holding stop lies one ulp above the rational:
\* the division stop / step (power >= 0) keeps that excess and Math.ceil
\* then rounds an exact multiple up by one step; the multiplication
\* stop * step (power < 0) rounds it away.
NiceCeil(q, t, above) ==
  IF above /\ t.power >= 0 /\ q[2] = 1 THEN q[1] + 1 ELSE QCeil(q)

\* stop extended to the next multiple of the tick step inc of t.
NiceExtend(stop, t, inc, above) ==
  QMul(QInt(NiceCeil(QDiv(stop, inc), t, above)), inc)

RECURSIVE NiceLoop(_, _, _, _, _)
\* One round of the loop, t the tick step of this round.
NiceStep(stop, above, prestep, maxIter, orig, t) ==
  IF t = prestep THEN stop
  ELSE NiceLoop(NiceExtend(stop, t, TickStep(t), above), FALSE, t,
                maxIter - 1, orig)

NiceLoop(stop, above, prestep, maxIter, orig) ==
  IF maxIter = 0 THEN orig
  ELSE NiceStep(stop, above, prestep, maxIter, orig, TickSpec(stop, NiceCount))

\* The upper bound of the domain after .domain([0, stop]).nice(): a zero
\* stop makes tickIncrement return -Infinity and then NaN, so the domain
\* stays [0, 0]; a negative stop is the mirror image of a positive one.
NoTickSpec == [power |-> 0, factor |-> 0]

NiceDomainMax(stop, above) ==
  IF stop[1] = 0 THEN QInt(0)
  ELSE IF stop[1] < 0
  THEN QNeg(NiceLoop(QNeg(stop), above, NoTickSpec, NiceMaxIter, QNeg(stop)))
  ELSE NiceLoop(stop, above, NoTickSpec, NiceMaxIter, stop)

\* x * 1.1 in double arithmetic for an integer x: the rational 11x/10, and
\* whether the double lies above it.  The products that are exact, for
\* |x| < 470 (every total the model can form lies in that range).
ExactTimes1_1 ==
  {x \in 0 .. 469 : x % 5 = 0 /\ (\/ x <= 20
                                  \/ (30 <= x /\ x <= 40)
                                  \/ (60 <= x /\ x <= 80)
                                  \/ (120 <= x /\ x <= 160)
                                  \/ (235 <= x /\ x <= 320))}

Times1_1(x) == [value |-> Q(11 * x, 10), above |-> Abs(x) \notin ExactTimes1_1]

\* yScale(v) of a linear scale with domain [0, domainMax] and range
\* [innerHeight, 0].  A domain [0, 0] is degenerate: d3 maps every value to
\* the middle of the range.
YScale(domainMax, v) ==
  IF domainMax[1] = 0 THEN Q(innerHeight, 2)
  ELSE QMul(QInt(innerHeight), QDiv(QSub(domainMax, v), domainMax))

\* The horizontal gridlines: one [tick, y] per tick of yScale.ticks(5).
GridLinesAt(domainMax, tk) ==
  [i \in 1 .. Len(tk) |-> [tick |-> tk[i], y |-> YScale(domainMax, tk[i])]]

GridLines(domainMax) == GridLinesAt(domainMax, Ticks(domainMax, TickCount))

(***************************************************************************)
(* d3-scale: scaleBand().domain(labels).range([0, w]).padding(p)           *)
(***************************************************************************)
\* The domain of a band scale: the labels without repetitions, in order of
\* first occurrence.
AppendNew(dom, l) ==
  IF \E i \in 1 .. Len(dom) : dom[i] = l THEN dom ELSE Append(dom, l)

RECURSIVE Dedupe(_)
Dedupe(labels) ==
  IF labels = <<>> THEN <<>>
  ELSE AppendNew(Dedupe(SubSeq(labels, 1, Len(labels) - 1)), labels[Len(labels)])

\* step = (stop - start) / max(1, n - paddingInner + 2 * paddingOuter),
\* both paddings p.
BandStepOver(w, d) == QDiv(QInt(w), IF QLt(d, QInt(1)) THEN QInt(1) ELSE d)

BandStep(n, w, p) == BandStepOver(w, QAdd(QInt(n), p))

\* A band as wide as a step and its padding: bands of that width overlap.
BandWidthWithPadding(labels, w, p) ==
  QMul(BandStep(Len(Dedupe(labels)), w, p), QAdd(QInt(1), p))

\* xScale.bandwidth() = step * (1 - paddingInner).
BandWidth(labels, w, p) ==
  QMul(BandStep(Len(Dedupe(labels)), w, p), QSub(QInt(1), p))

\* The start of the first band: (w - step * (n - p)) * align, align = 0.5.
BandOrigin(n, w, p) ==
  QMul(QSub(QInt(w), QMul(BandStep(n, w, p), QSub(QInt(n), p))), Q(1, 2))

\* The index of label l in the domain dom.
BandIndex(dom, l) == CHOOSE j \in 1 .. Len(dom) : dom[j] = l

BandStartsIn(labels, dom, origin, step) ==
  [i \in 1 .. Len(labels) |->
     QAdd(origin, QMul(QInt(BandIndex(dom, labels[i]) - 1), step))]

BandStartsOf(labels, dom, w, p) ==
  BandStartsIn(labels, dom, BandOrigin(Len(dom), w, p), BandStep(Len(dom), w, p))

\* xScale(labels[i]) for every label, in label order: the band start of the
\* label's first occurrence, origin + index * step.
BandStarts(labels, w, p) == BandStartsOf(labels, Dedupe(labels), w, p)

(***************************************************************************)
(* JavaScript values                                                       *)
(***************************************************************************)
\* A number that may be undefined is a sequence of length at most 1; NaN is
\* the pair <<0, 0>>.
NaN == <<0, 0>>

\* a[i] of a JavaScript array (i counted from 1): undefined out of range.
At(a, i) == IF i \in 1 .. Len(a) THEN <<a[i]>> ELSE <<>>

\* v || 0 for a number v.
OrZero(v) == IF v = <<>> THEN 0 ELSE v[1]

Max2(a, b) == IF a >= b THEN a ELSE b

RECURSIVE SeqMax(_)
SeqMax(s) == IF Len(s) = 1 THEN s[1] ELSE Max2(s[1], SeqMax(Tail(s)))

\* d3.max(data) || 0: undefined (hence 0) for an empty array.
D3MaxOrZero(data) == IF data = <<>> THEN 0 ELSE SeqMax(data)

RECURSIVE SeqSum(_)
SeqSum(s) == IF s = <<>> THEN 0 ELSE Head(s) + SeqSum(Tail(s))

\* x.toFixed(1) of a rational x >= 0, in tenths: the nearest tenth, the
\* larger one on a tie.
ToFixed1(x) == QFloor(QAdd(QMul(QInt(10), x), Q(1, 2)))

\* app.values of a stack object; a stack without the property has none.
HasValues(app) == "values" \in DOMAIN app

(***************************************************************************)
(* The canvas of one render call                                           *)
(***************************************************************************)
MsgNoData == "no data"
MsgNoHourlyData == "no hourly data"
MsgMalformed == "malformed data"

\* labels.forEach(label => fillText(label, ...)): the indices, from 0, of
\* the x-axis labels drawn when every label is.
AllLabels(n) == [i \in 1 .. n |-> i - 1]

\* labelStep = Math.ceil(hourLabels.length / 12)
LabelStep(n) == (n + 11) \div 12

\* The indices of the labels drawn when only every labelStep-th label and
\* the last one are.
DecimatedLabels(n) ==
  SelectSeq(AllLabels(n), LAMBDA i : i % LabelStep(n) = 0 \/ i = n - 1)

XAxisLabels(n, decimate) ==
  IF decimate THEN DecimatedLabels(n) ELSE AllLabels(n)

\* createCanvas(width, height): a transparent canvas of that size.
CreateCanvas(w, h) == [width |-> w, height |-> h, background |-> "transparent"]

\* A fillRect that leaves the canvas as it is.
FillRectNothing(c, style, x, y, w, h) == c

\* context.fillStyle = style; context.fillRect(x, y, w, h): the canvas has
\* the background style once a rectangle covers all of it.
FillRect(c, style, x, y, w, h) ==
  IF x <= 0 /\ y <= 0 /\ x + w >= c.width /\ y + h >= c.height
  THEN [c EXCEPT !.background = style]
  ELSE c

\* The canvas every renderer starts from.
Blank == FillRect(CreateCanvas(width, height), "#ffffff", 0, 0, width, height)

\* What a render call has drawn.  kind is the file name prefix of the
\* renderer that drew it.
Canvas(kind) ==
  [kind |-> kind, width |-> Blank.width, height |-> Blank.height,
   background |-> Blank.background,
   message |-> "", domainMax |-> QInt(0), grid |-> <<>>,
   bandStarts |-> <<>>, bandWidth |-> QInt(0), plotWidth |-> 0,
   xLabels |-> <<>>,
   bars |-> <<>>, totals |-> <<>>, totalLabels |-> <<>>, legend |-> <<>>,
   slices |-> <<>>]

\* generateEmptyPieChart, generateEmptyBarChart: the title and a centred
\* message on a blank canvas.
EmptyPieChart == [Canvas("empty_pie_chart") EXCEPT !.message = MsgNoData]
EmptyBarChart(message) == [Canvas("empty_bar_chart") EXCEPT !.message = message]

IsFallback(c) == c.kind \in {"empty_pie_chart", "empty_bar_chart"}

(***************************************************************************)
(* generateBarChart                                                        *)
(***************************************************************************)
BarPadding == Q(1, 5)

BarDomainMax(data) == NiceDomainMax(QInt(D3MaxOrZero(data)), FALSE)

\* The rectangle of one chartData entry with value v (undefined when data
\* is shorter than labels): x from the band scale, y = yScale(value), height
\* innerHeight - y; the value label is drawn for a value > 0.
BarRectAt(x, w, y, v) ==
  [x |-> x, y |-> y, w |-> w,
   h |-> IF v = <<>> THEN NaN ELSE QSub(QInt(innerHeight), y),
   value |-> v, label |-> v # <<>> /\ OrZero(v) > 0]

BarRect(x, w, domainMax, v) ==
  BarRectAt(x, w, IF v = <<>> THEN NaN ELSE YScale(domainMax, QInt(v[1])), v)

\* What generateBarChart draws with the scales it has built.
BarCanvas(labels, data, domainMax, xs, w) ==
  [Canvas("bar_chart") EXCEPT
     !.domainMax = domainMax,
     !.grid = GridLines(domainMax),
     !.bandStarts = xs,
     !.bandWidth = w,
     !.plotWidth = innerWidth,
     !.xLabels = AllLabels(Len(labels)),
     !.bars = [i \in 1 .. Len(labels) |->
                 BarRect(xs[i], w, domainMax, At(data, i))]]

BarChart(labels, data) ==
  BarCanvas(labels, data, BarDomainMax(data),
            BandStarts(labels, innerWidth, BarPadding),
            BandWidth(labels, innerWidth, BarPadding))

(***************************************************************************)
(* generateLineChart                                                       *)
(***************************************************************************)
LinePadding == Q(1, 10)

\* .nice() of a domain whose upper bound is a product m = x * 1.1.
NiceTimes(m) == NiceDomainMax(m.value, m.above)

\* domain([0, yMax * 1.1]).nice() with yMax = d3.max(data) || 0.
LineDomainMax(data) == NiceTimes(Times1_1(D3MaxOrZero(data)))

\* The point of one value: the centre of the band of its label (x0 is the
\* band start, 0 when data is longer than labels) and yScale(value); every
\* point gets its value label.
LinePoint(x0, w, domainMax, value) ==
  [x |-> QAdd(x0, QDiv(w, QInt(2))), y |-> YScale(domainMax, QInt(value)),
   w |-> QInt(0), h |-> QInt(0), value |-> <<value>>, label |-> TRUE]

\* What generateLineChart draws with the scales it has built.
LineCanvas(labels, data, domainMax, xs, w) ==
  [Canvas("line_chart") EXCEPT
     !.domainMax = domainMax,
     !.grid = GridLines(domainMax),
     !.bandStarts = xs,
     !.bandWidth = w,
     !.plotWidth = innerWidth,
     !.xLabels = AllLabels(Len(labels)),
     !.bars = [i \in 1 .. Len(data) |->
                 LinePoint(IF i <= Len(labels) THEN xs[i] ELSE QInt(0),
                           w, domainMax, data[i])]]

LineChart(labels, data) ==
  LineCanvas(labels, data, LineDomainMax(data),
             BandStarts(labels, innerWidth, LinePadding),
             BandWidth(labels, innerWidth, LinePadding))

(***************************************************************************)
(* generateStackedBarChart and generateHourlyStackedBarChart               *)
(***************************************************************************)
DailyLegendWidth == 100
HourlyLegendWidth == 140

\* adjustedInnerWidth: the plot width left of the legend.
AdjustedInnerWidth(legendWidth) ==
  width - marginLeft - (marginRight + legendWidth)

\* stackedData: for every bucket the sum of app.values[bucket] || 0 over
\* the stacks.
StackedData(labels, stacks) ==
  [i \in 1 .. Len(labels) |->
     SeqSum([k \in 1 .. Len(stacks) |-> OrZero(At(stacks[k].values, i))])]

\* The geometry the two stacked renderers differ in.
DailyGeometry ==
  [plotWidth |-> AdjustedInnerWidth(DailyLegendWidth), padding |-> Q(1, 5),
   fraction |-> Q(1, 10), minHeight |-> 20, decimate |-> FALSE]
HourlyGeometry ==
  [plotWidth |-> AdjustedInnerWidth(HourlyLegendWidth), padding |-> Q(1, 10),
   fraction |-> Q(3, 20), minHeight |-> 25, decimate |-> TRUE]

\* A segment's value label is drawn when the value exceeds the fraction of
\* the bucket total and the segment is higher than the minimum.
\* A value label drawn as soon as one of the two conditions holds.
SegmentLabelledEither(value, total, h, g) ==
  \/ QLt(QMul(QInt(total), g.fraction), QInt(value))
  \/ QLt(QInt(g.minHeight), h)

SegmentLabelled(value, total, h, g) ==
  /\ QLt(QMul(QInt(total), g.fraction), QInt(value))
  /\ QLt(QInt(g.minHeight), h)

\* A running offset that stays at the baseline.
StackTopAtBaseline(below) == QInt(innerHeight)

\* The running offset: the top of the highest segment drawn so far, the
\* baseline when there is none.
StackTop(below) ==
  IF below = <<>> THEN QInt(innerHeight) ELSE below[Len(below)].y

\* A stack with a value > 0 draws a rectangle of height
\* h = innerHeight - yScale(value) on top of the running offset.
Segment(below, i, k, name, value, total, h, g) ==
  IF value > 0
  THEN Append(below,
         [bucket |-> i, stack |-> k, name |-> name,
          y |-> QSub(StackTop(below), h), h |-> h, value |-> <<value>>,
          label |-> SegmentLabelled(value, total, h, g)])
  ELSE below

\* The segments of bucket i drawn for the first k stacks, bottom-up.
RECURSIVE StackColumn(_, _, _, _, _, _)
StackColumn(stacks, k, i, total, domainMax, g) ==
  IF k = 0 THEN <<>>
  ELSE Segment(StackColumn(stacks, k - 1, i, total, domainMax, g), i, k,
               stacks[k].appName, OrZero(At(stacks[k].values, i)), total,
               QSub(QInt(innerHeight),
                    YScale(domainMax, QInt(OrZero(At(stacks[k].values, i))))),
               g)

\* The segments of the buckets 1 .. n, bucket after bucket.
RECURSIVE StackColumns(_, _, _, _, _)
StackColumns(stacks, totals, n, domainMax, g) ==
  IF n = 0 THEN <<>>
  ELSE StackColumns(stacks, totals, n - 1, domainMax, g)
         \o StackColumn(stacks, Len(stacks), n, totals[n], domainMax, g)

\* The bucket total drawn above a bar: only for a total > 0, at
\* yScale(total) - 5, with one decimal.
TotalLabel(before, n, total, domainMax) ==
  IF total > 0
  THEN Append(before,
         [bucket |-> n, tenths |-> ToFixed1(QInt(total)),
          y |-> QSub(YScale(domainMax, QInt(total)), QInt(5))])
  ELSE before

RECURSIVE TotalLabels(_, _, _)
TotalLabels(totals, n, domainMax) ==
  IF n = 0 THEN <<>>
  ELSE TotalLabel(TotalLabels(totals, n - 1, domainMax), n, totals[n], domainMax)

MaxAppNameLength == 15

\* A displayAppName that is the app name itself.
DisplayAppNameInFull(appName) == appName

\* The hourly legend's displayAppName: names longer than maxAppNameLength
\* are cut to maxAppNameLength - 3 characters and "...".
DisplayAppName(appName) ==
  IF Len(appName) > MaxAppNameLength
  THEN SubSeq(appName, 1, MaxAppNameLength - 3) \o "..."
  ELSE appName

\* A legend drawn over the plot area.
LegendOverPlot(stacks, g, truncate) ==
  [k \in 1 .. Len(stacks) |->
     [name |-> stacks[k].appName, text |-> stacks[k].appName,
      x |-> g.plotWidth - 10, y |-> 25 + (k - 1) * 20]]

\* The legend: one swatch and name per stack, 20 px apart, 10 px right of
\* the plot area.
Legend(stacks, g, truncate) ==
  [k \in 1 .. Len(stacks) |->
     [name |-> stacks[k].appName,
      text |-> IF truncate THEN DisplayAppName(stacks[k].appName)
               ELSE stacks[k].appName,
      x |-> g.plotWidth + 10, y |-> 25 + (k - 1) * 20]]

\* What both stacked renderers draw for the stacks they use.
\* A segment is drawn at the band start of its bucket, one band wide.
StackedDrawing(kind, labels, stacks, domainMax, g, truncate, totals, xs, w, segments) ==
  [Canvas(kind) EXCEPT
     !.domainMax = domainMax,
     !.grid = GridLines(domainMax),
     !.bandStarts = xs,
     !.bandWidth = w,
     !.plotWidth = g.plotWidth,
     !.xLabels = XAxisLabels(Len(labels), g.decimate),
     !.bars = [j \in 1 .. Len(segments) |->
                 [bucket |-> segments[j].bucket, stack |-> segments[j].stack,
                  name |-> segments[j].name, x |-> xs[segments[j].bucket],
                  y |-> segments[j].y, w |-> w, h |-> segments[j].h,
                  value |-> segments[j].value, label |-> segments[j].label]],
     !.totals = totals,
     !.totalLabels = TotalLabels(totals, Len(labels), domainMax),
     !.legend = Legend(stacks, g, truncate)]

StackedCanvasOf(kind, labels, stacks, domainMax, g, truncate, totals) ==
  StackedDrawing(kind, labels, stacks, domainMax, g, truncate, totals,
                 BandStarts(labels, g.plotWidth, g.padding),
                 BandWidth(labels, g.plotWidth, g.padding),
                 StackColumns(stacks, totals, Len(labels), domainMax, g))

StackedCanvas(kind, labels, stacks, domainMax, g, truncate) ==
  StackedCanvasOf(kind, labels, stacks, domainMax, g, truncate,
                  StackedData(labels, stacks))

\* generateStackedBarChart reads app.values[dayIndex] of every stack for
\* every label: a stack without values makes that read throw a TypeError.
StackedBarChartThrows(labels, data) ==
  labels # <<>> /\ \E k \in 1 .. Len(data) : ~HasValues(data[k])

\* domain([0, d3.max(stackedData) || 0]).nice()
DailyDomainMax(labels, data) ==
  NiceDomainMax(QInt(D3MaxOrZero(StackedData(labels, data))), FALSE)

\* generateStackedBarChart draws all of data: there is no validity filter
\* and no check for empty input.
StackedBarChart(labels, data) ==
  StackedCanvas("stacked_bar_chart", labels, data,
                DailyDomainMax(labels, data), DailyGeometry, FALSE)

\* A filter that keeps every stack that has values, whatever their number.
ValidDataAnyLength(hourLabels, data) ==
  SelectSeq(data, LAMBDA app : HasValues(app))

\* validData: the stacks that have values, as many as there are hour labels.
ValidData(hourLabels, data) ==
  SelectSeq(data, LAMBDA app : HasValues(app) /\ Len(app.values) = Len(hourLabels))

HourlyFloor == 10

\* domain([0, maxValue > 0 ? maxValue : 10]).nice()
HourlyNice(m) ==
  IF m.value[1] > 0 THEN NiceDomainMax(m.value, m.above)
  ELSE NiceDomainMax(QInt(HourlyFloor), FALSE)

\* maxValue without the headroom of 1.1.
HourlyDomainMaxUnpadded(hourLabels, stacks) ==
  HourlyNice([value |-> QInt(SeqMax(StackedData(hourLabels, stacks))),
              above |-> FALSE])

\* maxValue = Math.max(...stackedData) * 1.1
HourlyDomainMax(hourLabels, stacks) ==
  HourlyNice(Times1_1(SeqMax(StackedData(hourLabels, stacks))))

\* The chart of the valid stacks, the fallback when there is none.
HourlyValidChart(hourLabels, validData) ==
  IF validData = <<>> THEN EmptyBarChart(MsgMalformed)
  ELSE StackedCanvas("hourly_stacked_chart", hourLabels, validData,
                     HourlyDomainMax(hourLabels, validData),
                     HourlyGeometry, TRUE)

\* hourLabels and data may be missing (undefined): an argument record
\* without the field.
HourlyStackedBarChart(a) ==
  IF \/ "labels" \notin DOMAIN a
     \/ "stacks" \notin DOMAIN a
  THEN EmptyBarChart(MsgNoHourlyData)
  ELSE IF a.labels = <<>> \/ a.stacks = <<>>
  THEN EmptyBarChart(MsgNoHourlyData)
  ELSE HourlyValidChart(a.labels, ValidData(a.labels, a.stacks))

(***************************************************************************)
(* generatePieChart                                                        *)
(***************************************************************************)
\* A filter that drops only the zero values and keeps the negative ones.
PieChartDataNonZero(labels, data) ==
  SelectSeq([i \in 1 .. Len(labels) |->
               [label |-> labels[i], value |-> OrZero(At(data, i))]],
            LAMBDA d : d.value # 0)

\* chartData: the (label, data[i] || 0) pairs with a value > 0, in input
\* order.
PieChartData(labels, data) ==
  SelectSeq([i \in 1 .. Len(labels) |->
               [label |-> labels[i], value |-> OrZero(At(data, i))]],
            LAMBDA d : d.value > 0)

\* total: the sum of the retained values.
PieTotal(chartData) == SeqSum([i \in 1 .. Len(chartData) |-> chartData[i].value])

\* The values of chartData that d3.pie() without sort(null) places before
\* the value at i: the greater ones, and the equal ones that come earlier.
PieValuesBefore(chartData, i) ==
  [j \in 1 .. Len(chartData) |->
     IF \/ chartData[j].value > chartData[i].value
        \/ chartData[j].value = chartData[i].value /\ j < i
     THEN chartData[j].value ELSE 0]

\* d3.pie() with its default order, by descending value.
PieSlicesByValue(chartData) ==
  [i \in 1 .. Len(chartData) |->
     [label |-> chartData[i].label, value |-> chartData[i].value,
      startAngle |-> Q(SeqSum(PieValuesBefore(chartData, i)),
                       PieTotal(chartData)),
      endAngle |-> Q(SeqSum(PieValuesBefore(chartData, i)) + chartData[i].value,
                     PieTotal(chartData))]]

\* d3.pie().sort(null): slice i starts where slice i - 1 ends and spans
\* value / total of the circle.  Angles are in turns (1 = 2 * pi).
PieSlices(chartData) ==
  [i \in 1 .. Len(chartData) |->
     [label |-> chartData[i].label, value |-> chartData[i].value,
      startAngle |-> Q(PieTotal(SubSeq(chartData, 1, i - 1)), PieTotal(chartData)),
      endAngle |-> Q(PieTotal(SubSeq(chartData, 1, i)), PieTotal(chartData))]]

\* A percentage cut after its first decimal instead of rounded.
PiePercentTruncated(value, total) ==
  QFloor(QMul(QMul(Q(value, total), QInt(100)), QInt(10)))

\* percent = (d.value / total) * 100, displayed with toFixed(1).
PiePercentTenths(value, total) ==
  ToFixed1(QMul(Q(value, total), QInt(100)))

\* The legend: per retained pair the label, the value and the percentage,
\* both with one decimal (kept in tenths), 20 px apart.
PieLegendOf(chartData, total) ==
  [i \in 1 .. Len(chartData) |->
     [name |-> chartData[i].label,
      valueTenths |-> ToFixed1(QInt(chartData[i].value)),
      percentTenths |-> PiePercentTenths(chartData[i].value, total),
      y |-> height \div 2 - (Len(chartData) * 20) \div 2 + (i - 1) * 20]]

PieLegend(chartData) == PieLegendOf(chartData, PieTotal(chartData))

\* The chart of the retained pairs, the fallback when there is none.
PieCanvas(chartData) ==
  IF chartData = <<>> THEN EmptyPieChart
  ELSE [Canvas("pie_chart") EXCEPT
          !.slices = PieSlices(chartData),
          !.legend = PieLegend(chartData)]

PieChart(labels, data) ==
  IF data = <<>> \/ labels = <<>> THEN EmptyPieChart
  ELSE PieCanvas(PieChartData(labels, data))

(***************************************************************************)
(* Bounds of the model                                                     *)
(***************************************************************************)
MaxLabels == 2      \* longest labels / values array of a series call
MaxBuckets == 2     \* longest labels / values array of a stacked call
MaxCalls == 2       \* render calls of one behaviour of SpecSink
MaxClock == 1       \* milliseconds the clock may advance
MaxAxisLabels == 25 \* longest labels array of SpecAxis
MaxLegendNames == 2 \* stacks of a call of SpecLegend whose names vary
MaxApps == 18 \* stacks of a call of SpecLegend, one per app
MaxTasks == 3 \* tasks cron.schedule creates
MaxHours == 24 \* instants of SpecClock
MaxRequests == 2    \* POST requests of one behaviour of SpecApi
MaxUsers == 2       \* active users a send-to-all-users operation finds
RandomRange == 2    \* stands for the 10000 suffixes of Math.random() * 10000

LabelSet == {"4/1", "4/2"}
SeriesValues == {-1, 0, 90, 120}
StackValues == {0, 5, 10}
StackNames == <<"A", "B">>

SeqsUpTo(S, n) == UNION {[1 .. k -> S] : k \in 0 .. n}

\* The arguments of a bar, pie or line call.
SeriesArgs ==
  [type : {"series"}, labels : SeqsUpTo(LabelSet, MaxLabels),
   data : SeqsUpTo(SeriesValues, MaxLabels)]

\* The stack objects a caller may pass at position k: with values of any
\* length up to MaxBuckets, or without values.
StacksAt(k) ==
  {[appName |-> StackNames[k]]}
    \cup {[appName |-> StackNames[k], values |-> v] :
            v \in SeqsUpTo(StackValues, MaxBuckets)}

StackSeqs ==
  UNION {{s \in [1 .. n -> UNION {StacksAt(k) : k \in 1 .. Len(StackNames)}] :
            \A k \in 1 .. n : s[k] \in StacksAt(k)} : n \in 0 .. Len(StackNames)}

\* The arguments of a stacked call; an argument that is undefined is a
\* missing field.
StackArgs ==
  [type : {"stacks"}, labels : SeqsUpTo(LabelSet, MaxBuckets), stacks : StackSeqs]
    \cup [type : {"stacks"}, labels : SeqsUpTo(LabelSet, MaxBuckets)]
    \cup [type : {"stacks"}, stacks : StackSeqs]
    \cup [type : {"stacks"}]

\* Values that make a segment small against its bucket or against the
\* scale.
LabelValues == {0, 5, 10, 60, 120}

\* Two stacks over two buckets with such values.
LabelArgs ==
  {[type |-> "stacks", labels |-> <<"4/1", "4/2">>,
    stacks |-> <<[appName |-> "A", values |-> a],
                 [appName |-> "B", values |-> b]>>] :
     a \in [1 .. 2 -> LabelValues], b \in [1 .. 2 -> LabelValues]}

\* The labels "1", "2", ... of n buckets, with the same value for each.
HourLabels(n) == [i \in 1 .. n |-> ToString(i)]

AxisArgs ==
  {[type |-> "series", labels |-> HourLabels(n), data |-> [i \in 1 .. n |-> 5]] :
     n \in 1 .. MaxAxisLabels}
  \cup {[type |-> "stacks", labels |-> HourLabels(n),
         stacks |-> <<[appName |-> "A", values |-> [i \in 1 .. n |-> 5]]>>] :
          n \in 1 .. MaxAxisLabels}

\* App names of 4, 15, 16 and 25 characters.
AppNames ==
  {"LINE", "com.android.app", "com.android.apps", "com.google.android.youtube"}

\* A stack of one hour, valid or with no values at all.
NamedStacks == [appName : AppNames, values : {<<5>>, <<>>}]

\* One hour label with a few stacks of any of these names, or with one
\* stack per app for up to MaxApps apps.
LegendArgs ==
  {[type |-> "stacks", labels |-> <<"0">>, stacks |-> s] :
     s \in UNION {[1 .. n -> NamedStacks] : n \in 1 .. MaxLegendNames}}
  \cup {[type |-> "stacks", labels |-> <<"0">>,
         stacks |-> [k \in 1 .. n |-> [appName |-> ToString(k), values |-> <<5>>]]] :
          n \in 1 .. MaxApps}

\* The arguments SpecSink renders again and again.
SinkArgs ==
  {[type |-> "series", labels |-> <<"4/1">>, data |-> <<120>>],
   [type |-> "series", labels |-> <<>>, data |-> <<>>],
   [type |-> "stacks", labels |-> <<"4/1">>,
    stacks |-> <<[appName |-> "A", values |-> <<10>>]>>],
   [type |-> "stacks", labels |-> <<>>, stacks |-> <<>>]}

(***************************************************************************)
(* Steps of a render call, in the order of the source                      *)
(***************************************************************************)
\* The end of every renderer: the scratch directory, the file name, the
\* PNG encoding and the write.
SinkSteps == <<"mkdir", "fileName", "toBuffer", "writeFile">>

\* generateEmptyPieChart, generateEmptyBarChart.
EmptySteps ==
  <<"createCanvas", "fillBackground", "title", "message">> \o SinkSteps

\* generateBarChart with the title drawn after the PNG was encoded.
BarStepsTitleLate ==
  <<"import", "createCanvas", "fillBackground", "chartData", "bandScale",
    "linearScale", "colorScale", "grid", "xAxis", "yAxis", "bars",
    "mkdir", "fileName", "toBuffer", "title", "writeFile">>

BarSteps ==
  <<"import", "createCanvas", "fillBackground", "chartData", "bandScale",
    "linearScale", "colorScale", "grid", "xAxis", "yAxis", "bars",
    "title">> \o SinkSteps

LineSteps ==
  <<"import", "createCanvas", "fillBackground", "bandScale", "linearScale",
    "grid", "xAxis", "yAxis", "line", "area", "points", "title">>
  \o SinkSteps

StackedSteps ==
  <<"import", "createCanvas", "fillBackground", "bandScale", "stackedData",
    "linearScale", "colorScale", "grid", "xAxis", "yAxis", "segments",
    "title", "legend">> \o SinkSteps

HourlyChartSteps ==
  <<"import", "validData", "createCanvas", "fillBackground", "bandScale",
    "stackedData", "linearScale", "colorScale", "grid", "xAxis", "yAxis",
    "segments", "title", "legend">> \o SinkSteps

\* The guard of generateHourlyStackedBarChart returns the fallback before
\* validData is computed; an empty validData returns it after.
HourlySteps(a) ==
  IF \/ "labels" \notin DOMAIN a
     \/ "stacks" \notin DOMAIN a
  THEN <<"import">> \o EmptySteps
  ELSE IF a.labels = <<>> \/ a.stacks = <<>>
  THEN <<"import">> \o EmptySteps
  ELSE IF ValidData(a.labels, a.stacks) = <<>>
  THEN <<"import", "validData">> \o EmptySteps
  ELSE HourlyChartSteps

PieChartSteps ==
  <<"import", "createCanvas", "fillBackground", "chartData", "colorScale",
    "title", "pie", "slices", "legend">> \o SinkSteps

\* generatePieChart returns the fallback before it creates its own canvas
\* when an argument is empty, and after it has painted its own canvas
\* when no pair is retained.
PieSteps(labels, data) ==
  IF data = <<>> \/ labels = <<>> THEN <<"import">> \o EmptySteps
  ELSE IF PieChartData(labels, data) = <<>>
  THEN <<"import", "createCanvas", "fillBackground", "chartData">>
       \o EmptySteps
  ELSE PieChartSteps

\* The steps that compute the band scale and the linear scale.
ScaleSteps == {"bandScale", "linearScale"}

\* The steps that draw on the canvas.
DrawSteps ==
  {"fillBackground", "grid", "xAxis", "yAxis", "bars", "line", "area",
   "points", "segments", "slices", "title", "legend", "message"}

\* The steps the environment can make fail: the dynamic import of d3,
\* createCanvas, fs.mkdirSync, canvas.toBuffer and fs.writeFileSync.
Faults == {"import", "createCanvas", "mkdir", "toBuffer", "writeFile"}

\* The first step of steps that fails, 0 if none does.
FailIndex(steps, bad) ==
  IF \E i \in 1 .. Len(steps) : steps[i] \in bad
  THEN CHOOSE i \in 1 .. Len(steps) :
         steps[i] \in bad /\ \A j \in 1 .. i - 1 : steps[j] \notin bad
  ELSE 0

\* The steps at which generateStackedBarChart throws a TypeError:
\* domain(labels) iterates labels, the callback of labels.map calls
\* data.forEach and reads app.values[i], domain(data.map(..)) calls
\* data.map.
StackedTypeErrors(a) ==
  IF "labels" \notin DOMAIN a THEN {"bandScale"}
  ELSE IF a.labels # <<>> /\ "stacks" \notin DOMAIN a THEN {"stackedData"}
  ELSE IF "stacks" \notin DOMAIN a THEN {"colorScale"}
  ELSE IF StackedBarChartThrows(a.labels, a.stacks) THEN {"stackedData"}
  ELSE {}

(***************************************************************************)
(* The application: app.locals, the reporters and the API router           *)
(***************************************************************************)
\* The two index.ts of the repository: the one that creates a daily, an
\* hourly and a weekly reporter, and the one that creates a single
\* PhoneUsageReporter.
Wirings == {"index", "legacyIndex"}

\* The reporters index.ts stores in app.locals.
Locals(wiring) ==
  IF wiring = "index"
  THEN [dailyReporter |-> "DailyReporter", hourlyReporter |-> "HourlyReporter",
        weeklyReporter |-> "WeeklyReporter"]
  ELSE [reporter |-> "PhoneUsageReporter"]

\* The send-to-all-users operations of the reporter classes.
Methods(class) ==
  IF class = "DailyReporter" THEN {"sendDailyReportToAllUsers"}
  ELSE IF class = "HourlyReporter" THEN {"sendHourlyReportToAllUsers"}
  ELSE {"sendReportToAllUsers"}

TriggerPaths == {"/api/trigger-weekly-reports", "/api/trigger-hourly-reports"}

\* The operation a trigger route calls on req.app.locals.reporter.
Operation(path) ==
  IF path = "/api/trigger-weekly-reports" THEN "sendReportToAllUsers"
  ELSE "sendHourlyReportToAllUsers"

\* The Authorization header of a request: none, a bearer token that is not
\* the configured API key, the configured API key.
AuthHeaders == {"none", "wrong", "valid"}

\* What a send-to-all-users operation resolves with.
Stats ==
  UNION {{[total |-> t, success |-> n, failed |-> t - n] : n \in 0 .. t} :
           t \in 0 .. MaxUsers}

(***************************************************************************)
(* State                                                                   *)
(***************************************************************************)
VARIABLES
  locals,       \* app.locals: name -> class of the reporter stored there
  requests,     \* the POST requests received, in order
  invocations,  \* the send-to-all-users operations the handlers have called
  awaiting,     \* the requests whose handler awaits its reporter
  responses,    \* the responses sent, in order
  args,      \* the arguments the caller passes to the renderers
  budget,    \* render calls the caller still makes
  clock,     \* Date.now()
  tmpDir,    \* the files of the scratch directory: path -> index in
             \* returned of the call that wrote it, 0 for a file that a
             \* failed write left behind
  returned,  \* the paths the render calls have returned, in order
  result,    \* the outcome of the latest render call
  env,       \* the step the environment makes fail in the next render
             \* call, "ok" if none
  partial,   \* the files of tmpDir that do not hold a complete PNG
  activeUsers,  \* the user_id column of the rows the query for the active
                \* users returns
  calls,        \* the kinds of the send-to-all-users operations still to
                \* be called: by the caller, or by the callbacks of the
                \* schedules whose time comes
  ops,          \* the send-to-all-users operations called, in order
  cronTasks,    \* the tasks cron.schedule has created, in order
  handler       \* ScheduleHandler: kind -> index in cronTasks of its
                \* task, 0 for null

renderVars == <<args, budget, clock, tmpDir, returned, result, env, partial>>

apiVars == <<locals, requests, invocations, awaiting, responses>>

jobVars == <<activeUsers, calls, ops, cronTasks, handler>>

vars == <<renderVars, apiVars, jobVars>>

\* The kinds of report.
Kinds == {"weekly", "hourly", "daily"}

NoResult ==
  [fn |-> "", status |-> "none", path |-> <<>>, canvas |-> <<>>,
   steps |-> <<>>, error |-> ""]

InitFiles ==
  /\ clock = 0
  /\ tmpDir = [p \in {} |-> 0]
  /\ returned = <<>>
  /\ result = NoResult
  /\ env = "ok"
  /\ partial = {}

\* No request has been received.
InitRouter ==
  /\ requests = <<>>
  /\ invocations = <<>>
  /\ awaiting = {}
  /\ responses = <<>>

\* No operation has been called and no task scheduled.
InitJobs ==
  /\ ops = <<>>
  /\ cronTasks = <<>>
  /\ handler = [kind \in Kinds |-> 0]

\* Nobody calls a send-to-all-users operation.
NoJobs == activeUsers = <<>> /\ calls = <<>> /\ InitJobs

\* One render call on any arguments.
Init ==
  /\ args \in SeriesArgs \cup StackArgs /\ budget = 1 /\ InitFiles
  /\ locals = Locals("index") /\ InitRouter /\ NoJobs

\* MaxCalls render calls on one of a few arguments.
InitSink ==
  /\ args \in SinkArgs /\ budget = MaxCalls /\ InitFiles
  /\ locals = Locals("index") /\ InitRouter /\ NoJobs

\* One call of a stacked renderer on two stacks over two buckets.
InitStacked ==
  /\ args \in LabelArgs /\ budget = 1 /\ InitFiles
  /\ locals = Locals("index") /\ InitRouter /\ NoJobs

\* One render call on up to MaxAxisLabels labels.
InitAxis ==
  /\ args \in AxisArgs /\ budget = 1 /\ InitFiles
  /\ locals = Locals("index") /\ InitRouter /\ NoJobs

\* One call of a stacked renderer on stacks with app names.
InitLegend ==
  /\ args \in LegendArgs /\ budget = 1 /\ InitFiles
  /\ locals = Locals("index") /\ InitRouter /\ NoJobs

\* The user_id column of the rows of the active users: no row, one row,
\* rows of one user, rows of two users.
ActiveUserRows ==
  {<<>>, <<"u1">>, <<"u1", "u1">>, <<"u1", "u2">>, <<"u2", "u1", "u2">>}

\* The caller calls one send-to-all-users operation.
InitReport ==
  /\ activeUsers \in ActiveUserRows
  /\ calls \in {<<kind>> : kind \in Kinds}
  /\ InitJobs
  /\ args = [type |-> "series", labels |-> <<>>, data |-> <<>>]
  /\ budget = 0 /\ InitFiles
  /\ locals = Locals("index") /\ InitRouter

\* A new ScheduleHandler; the times of two schedules will come; the query
\* for the active users finds no row.
InitSchedule ==
  /\ activeUsers = <<>>
  /\ calls \in {<<first, second>> : first \in Kinds, second \in Kinds}
  /\ InitJobs
  /\ args = [type |-> "series", labels |-> <<>>, data |-> <<>>]
  /\ budget = 0 /\ InitFiles
  /\ locals = Locals("index") /\ InitRouter

\* hoursCount: the hours a report looks back.
HoursCount == 6

\* The hours of one day, two days after 1970-01-01T00:00Z.
Instants == 48 .. 48 + MaxHours - 1

\* The offsets of America/Los_Angeles (standard time), UTC and Asia/Tokyo.
TzOffsets == {-8, 0, 9}

\* What a query of one hour answers: an error, no row, rows of two apps
\* and a row without app name, rows of five more apps, one with no usage.
HourRows ==
  {<<>>,
   <<[app_name |-> "A", usage_time |-> 5], [app_name |-> "B", usage_time |-> 10],
     [app_name |-> "", usage_time |-> 3]>>,
   <<[app_name |-> "C", usage_time |-> 1], [app_name |-> "D", usage_time |-> 2],
     [app_name |-> "E", usage_time |-> 3], [app_name |-> "F", usage_time |-> 15],
     [app_name |-> "G", usage_time |-> 0]>>}

\* { data, error } of a query.
HourResponses ==
  {[error |-> TRUE, data |-> <<>>]} \cup [error : {FALSE}, data : HourRows]

\* A call of HourlyReporter at any of the instants in any of the time
\* zones; no hour has a row.
InitClock ==
  /\ args \in [type : {"hourly"}, now : Instants, offset : TzOffsets,
               answers : {[i \in 1 .. HoursCount |-> [error |-> FALSE, data |-> <<>>]]}]
  /\ budget = 1 /\ InitFiles
  /\ locals = Locals("index") /\ InitRouter /\ NoJobs

\* A call of HourlyReporter at noon in Tokyo, with any answers to the
\* queries of the last hours.
InitUsage ==
  /\ args \in [type : {"hourly"}, now : {51}, offset : {9},
               answers : [1 .. HoursCount -> HourResponses]]
  /\ budget = 1 /\ InitFiles
  /\ locals = Locals("index") /\ InitRouter /\ NoJobs

\* The application started by either index.ts, before any request and any
\* render call.
InitApi ==
  /\ args = [type |-> "series", labels |-> <<>>, data |-> <<>>]
  /\ budget = 0 /\ InitFiles
  /\ locals \in {Locals(w) : w \in Wirings} /\ InitRouter /\ NoJobs

(***************************************************************************)
(* Output sink                                                             *)
(***************************************************************************)
\* `${prefix}_${timestamp}_${random}.png` under tmp.
FilePath(kind, timestamp, random) ==
  [prefix |-> kind, timestamp |-> timestamp, random |-> random]

\* fs.writeFileSync(path, buffer) and return path: a file of that name is
\* replaced.
WriteFile(fn, canvas, steps, path) ==
  /\ tmpDir' = [p \in DOMAIN tmpDir \cup {path} |->
                  IF p = path THEN Len(returned) + 1 ELSE tmpDir[p]]
  /\ partial' = partial \ {path}
  /\ returned' = Append(returned, path)
  /\ result' = [fn |-> fn, status |-> "returned", path |-> <<path>>,
                canvas |-> <<canvas>>, steps |-> steps, error |-> ""]
  /\ budget' = budget - 1
  /\ env' = "ok"
  /\ UNCHANGED <<args, clock>>
  /\ UNCHANGED <<apiVars, jobVars>>

\* The end of every renderer: name the file after Date.now() and
\* Math.floor(Math.random() * 10000), write the PNG and return the path.
OutputSink(fn, canvas, steps) ==
  \E random \in 0 .. RandomRange - 1 :
    WriteFile(fn, canvas, steps, FilePath(canvas.kind, clock, random))

\* A renderer that throws after the steps done: the error is logged and
\* rethrown, nothing is written.
Throws(fn, done, error) ==
  /\ result' = [fn |-> fn, status |-> "threw", path |-> <<>>,
                canvas |-> <<>>, steps |-> done, error |-> error]
  /\ budget' = budget - 1
  /\ env' = "ok"
  /\ UNCHANGED <<args, clock, tmpDir, returned, partial>>
  /\ UNCHANGED <<apiVars, jobVars>>

\* A failed write that is swallowed: the path is returned all the same.
FailedWriteReturns(fn, done, path) ==
  /\ tmpDir' = [p \in DOMAIN tmpDir \cup {path} |->
                  IF p = path THEN Len(returned) + 1 ELSE tmpDir[p]]
  /\ partial' = partial \cup {path}
  /\ returned' = Append(returned, path)
  /\ result' = [fn |-> fn, status |-> "returned", path |-> <<path>>,
                canvas |-> <<>>, steps |-> done, error |-> ""]
  /\ budget' = budget - 1
  /\ env' = "ok"
  /\ UNCHANGED <<args, clock>>
  /\ UNCHANGED <<apiVars, jobVars>>

\* fs.writeFileSync(path, buffer) throws: the file is untouched if it
\* could not be opened, and is left truncated or half written if the
\* write failed after it was opened.  The error is logged and rethrown.
FailedWrite(fn, done, path) ==
  /\ \/ UNCHANGED <<tmpDir, partial>>
     \/ /\ tmpDir' = [p \in DOMAIN tmpDir \cup {path} |->
                        IF p = path THEN 0 ELSE tmpDir[p]]
        /\ partial' = partial \cup {path}
  /\ result' = [fn |-> fn, status |-> "threw", path |-> <<>>,
                canvas |-> <<>>, steps |-> done, error |-> "writeFile"]
  /\ budget' = budget - 1
  /\ env' = "ok"
  /\ UNCHANGED <<args, clock, returned>>
  /\ UNCHANGED <<apiVars, jobVars>>

\* The call fails at step i of steps.
Fails(fn, canvas, steps, i) ==
  IF steps[i] = "writeFile"
  THEN \E random \in 0 .. RandomRange - 1 :
         FailedWrite(fn, SubSeq(steps, 1, i - 1),
                     FilePath(canvas.kind, clock, random))
  ELSE Throws(fn, SubSeq(steps, 1, i - 1), steps[i])

\* The steps the environment makes fail.
Injected == IF env = "ok" THEN {} ELSE {env}

\* A render call: its steps run in order up to the first that fails.
Render(fn, canvas, steps, bad) ==
  IF FailIndex(steps, bad) = 0 THEN OutputSink(fn, canvas, steps)
  ELSE Fails(fn, canvas, steps, FailIndex(steps, bad))

(***************************************************************************)
(* Render calls                                                            *)
(***************************************************************************)
GenerateBarChart ==
  /\ budget > 0 /\ args.type = "series"
  /\ Render("generateBarChart", BarChart(args.labels, args.data),
            BarSteps, Injected)

GeneratePieChart ==
  /\ budget > 0 /\ args.type = "series"
  /\ Render("generatePieChart", PieChart(args.labels, args.data),
            PieSteps(args.labels, args.data), Injected)

GenerateLineChart ==
  /\ budget > 0 /\ args.type = "series"
  /\ Render("generateLineChart", LineChart(args.labels, args.data),
            LineSteps, Injected)

GenerateStackedBarChart ==
  /\ budget > 0 /\ args.type = "stacks"
  /\ Render("generateStackedBarChart",
            StackedBarChart(args.labels, args.stacks),
            StackedSteps, Injected \cup StackedTypeErrors(args))

GenerateHourlyStackedBarChart ==
  /\ budget > 0 /\ args.type = "stacks"
  /\ Render("generateHourlyStackedBarChart", HourlyStackedBarChart(args),
            HourlySteps(args), Injected)

RenderNext ==
  \/ GenerateBarChart
  \/ GeneratePieChart
  \/ GenerateLineChart
  \/ GenerateStackedBarChart
  \/ GenerateHourlyStackedBarChart

StackedNext == GenerateStackedBarChart \/ GenerateHourlyStackedBarChart

\* A millisecond passes.
Tick ==
  /\ clock < MaxClock
  /\ clock' = clock + 1
  /\ UNCHANGED <<args, budget, tmpDir, returned, result, env, partial>>
  /\ UNCHANGED <<apiVars, jobVars>>

\* BaseReporter.cleanupTempFiles on one returned path: the file is
\* unlinked if it exists.
CleanupTempFiles ==
  \E i \in 1 .. Len(returned) :
    /\ returned[i] \in DOMAIN tmpDir
    /\ tmpDir' = [p \in DOMAIN tmpDir \ {returned[i]} |-> tmpDir[p]]
    /\ partial' = partial \ {returned[i]}
    /\ UNCHANGED <<args, budget, clock, returned, result, env>>
    /\ UNCHANGED <<apiVars, jobVars>>

\* The environment makes one of the steps it can make fail fail in the
\* next render call.
Fault ==
  /\ budget > 0
  /\ env = "ok"
  /\ env' \in Faults
  /\ UNCHANGED <<args, budget, clock, tmpDir, returned, result, partial>>
  /\ UNCHANGED <<apiVars, jobVars>>

Next == RenderNext \/ Tick \/ CleanupTempFiles \/ Fault

\* One render call in an environment where no step fails; the clock and
\* the scratch directory matter only between calls.
Spec == Init /\ [][RenderNext]_vars

\* One render call on a long labels array.
SpecAxis == InitAxis /\ [][RenderNext]_vars

\* One call of a stacked renderer on stacks with app names.
SpecLegend == InitLegend /\ [][StackedNext]_vars

\* One call of a stacked renderer.
SpecStacked == InitStacked /\ [][StackedNext]_vars

\* Several render calls, with time passing, files cleaned up and steps
\* failing in between.
SpecSink == InitSink /\ [][Next]_vars

(***************************************************************************)
(* API router                                                              *)
(***************************************************************************)
\* res.json({success: true, message, stats}): status 200.
Ok(id, stats) ==
  [request |-> id, status |-> 200, success |-> TRUE, stats |-> <<stats>>,
   error |-> ""]

\* catch (error): res.status(500).json({success: false, ...}).
ServerError(id, error) ==
  [request |-> id, status |-> 500, success |-> FALSE, stats |-> <<>>,
   error |-> error]

\* reporter.sendReportToAllUsers() / reporter.sendHourlyReportToAllUsers()
\* is called and awaited.
Invoke(id, class, op) ==
  /\ invocations' = Append(invocations,
                           [request |-> id, reporter |-> class, op |-> op])
  /\ awaiting' = awaiting \cup {id}
  /\ UNCHANGED responses

\* The handler throws a TypeError before it calls anything: the catch
\* answers 500.
HandlerThrows(id) ==
  /\ responses' = Append(responses, ServerError(id, "TypeError"))
  /\ UNCHANGED <<invocations, awaiting>>

\* The handler of a trigger route up to its await: reporter is
\* req.app.locals.reporter, whatever headers the request carries; a
\* reporter that is undefined or lacks the operation makes the call
\* throw.
Handle(id, op) ==
  IF "reporter" \notin DOMAIN locals THEN HandlerThrows(id)
  ELSE IF op \notin Methods(locals.reporter) THEN HandlerThrows(id)
  ELSE Invoke(id, locals.reporter, op)

\* POST /api/trigger-weekly-reports, POST /api/trigger-hourly-reports.
PostTrigger ==
  \E path \in TriggerPaths, auth \in AuthHeaders :
    /\ Len(requests) < MaxRequests
    /\ requests' = Append(requests, [path |-> path, auth |-> auth])
    /\ Handle(Len(requests) + 1, Operation(path))
    /\ UNCHANGED <<jobVars, renderVars, locals>>

\* The awaited operation resolves with its stats: the handler answers 200.
ReporterResolves ==
  \E id \in awaiting, stats \in Stats :
    /\ awaiting' = awaiting \ {id}
    /\ responses' = Append(responses, Ok(id, stats))
    /\ UNCHANGED <<jobVars, renderVars, locals, requests, invocations>>

\* The awaited operation rejects (the query for the active users fails):
\* the catch answers 500.
ReporterRejects ==
  \E id \in awaiting :
    /\ awaiting' = awaiting \ {id}
    /\ responses' = Append(responses, ServerError(id, "reporter"))
    /\ UNCHANGED <<jobVars, renderVars, locals, requests, invocations>>

NextApi == PostTrigger \/ ReporterResolves \/ ReporterRejects

\* The requests to the trigger routes of the running application.
SpecApi == InitApi /\ [][NextApi]_vars

(***************************************************************************)
(* Reporters: sendReportToAllUsers, sendHourlyReportToAllUsers,            *)
(* sendDailyReportToAllUsers and the report of one user                    *)
(***************************************************************************)
\* The awaited steps of sendReport, sendHourlyReport and sendDailyReport,
\* and the final cleanupTempFiles; a chart step is named after the prefix
\* of the file it writes.
ReportSteps(kind) ==
  IF kind = "hourly"
  THEN <<"prepare", "hourly_stacked_chart", "pie_chart", "upload", "upload",
         "slack", "cleanup">>
  ELSE IF kind = "daily"
  THEN <<"prepare", "hourly_stacked_chart", "pie_chart", "upload", "slack",
         "cleanup">>
  ELSE <<"prepare", "hourly_stacked_chart", "line_chart", "upload", "slack",
         "cleanup">>

ChartSteps == {"hourly_stacked_chart", "pie_chart", "line_chart"}

\* activeUsers.map(u => u.user_id) with every user id twice.
UniqueUserIdsRepeated(rows) == rows \o rows

\* Array.from(new Set(activeUsers.map(u => u.user_id))): the distinct user
\* ids in the order of their first row.
UniqueUserIds(rows) == Dedupe(rows)

\* The report of one user, started and not yet at its first await.
NewAttempt(userId) ==
  [user |-> userId, pc |-> 1, status |-> "running", files |-> <<>>]

\* A send-to-all-users operation that awaits its query; task is the cron
\* task whose callback called it, 0 for another caller.
NewOp(kind, task) ==
  [kind |-> kind, task |-> task, status |-> "query", ids |-> <<>>,
   attempts |-> <<>>, stats |-> <<>>, logged |-> ""]

\* results.filter(r => r.status === status).length
CountSettled(attempts, status) ==
  Len(SelectSeq(attempts, LAMBDA a : a.status = status))

\* The caller calls a send-to-all-users operation, which runs up to the
\* await of its query.
SendToAllUsers ==
  /\ calls # <<>>
  /\ ops' = Append(ops, NewOp(Head(calls), 0))
  /\ calls' = Tail(calls)
  /\ UNCHANGED <<activeUsers, cronTasks, handler>>
  /\ UNCHANGED <<renderVars, apiVars>>

\* The query for the active users answers with an error: throw new
\* Error(...), which the catch logs and throws again.
QueryFails ==
  \E i \in 1 .. Len(ops) :
    /\ ops[i].status = "query"
    /\ ops' = [ops EXCEPT ![i].status = "rejected"]
    /\ UNCHANGED <<activeUsers, calls, cronTasks, handler>>
    /\ UNCHANGED <<renderVars, apiVars>>

\* The operation i calls the report of every id of ids, each up to its
\* first await, and awaits Promise.allSettled.
SendsReports(i, ids) ==
  ops' = [ops EXCEPT ![i].status = "sending", ![i].ids = ids,
                     ![i].attempts = [j \in 1 .. Len(ids) |-> NewAttempt(ids[j])]]

\* The query for the active users answers with its rows.
QuerySucceeds ==
  \E i \in 1 .. Len(ops) :
    /\ ops[i].status = "query"
    /\ SendsReports(i, UniqueUserIds(activeUsers))
    /\ UNCHANGED <<activeUsers, calls, cronTasks, handler>>
    /\ UNCHANGED <<renderVars, apiVars>>

\* The report j of operation i awaits a step.
ReportAwaits(i, j) ==
  ops[i].status = "sending" /\ ops[i].attempts[j].status = "running"

\* The step the report j of operation i awaits.
StepOf(i, j) == ReportSteps(ops[i].kind)[ops[i].attempts[j].pc]

\* The renderer the report awaits writes its file and returns the path.
ChartWritten(i, j, path) ==
  /\ tmpDir' = [p \in DOMAIN tmpDir \cup {path} |->
                  IF p = path THEN Len(returned) + 1 ELSE tmpDir[p]]
  /\ partial' = partial \ {path}
  /\ returned' = Append(returned, path)
  /\ ops' = [ops EXCEPT ![i].attempts[j].pc = @ + 1,
                        ![i].attempts[j].files = Append(@, path)]

\* await generateHourlyStackedBarChart(...), generatePieChart(...),
\* this.generateLineChart(...)
GenerateChart ==
  \E i \in 1 .. Len(ops) : \E j \in 1 .. Len(ops[i].attempts) :
    /\ ReportAwaits(i, j)
    /\ StepOf(i, j) \in ChartSteps
    /\ \E random \in 0 .. RandomRange - 1 :
         ChartWritten(i, j, FilePath(StepOf(i, j), clock, random))
    /\ UNCHANGED <<args, budget, clock, result, env>>
    /\ UNCHANGED <<activeUsers, calls, cronTasks, handler>>
    /\ UNCHANGED apiVars

\* The data of the report, an upload or the Slack message succeeds.
ReportStep ==
  \E i \in 1 .. Len(ops) : \E j \in 1 .. Len(ops[i].attempts) :
    /\ ReportAwaits(i, j)
    /\ StepOf(i, j) \notin ChartSteps \cup {"cleanup"}
    /\ ops' = [ops EXCEPT ![i].attempts[j].pc = @ + 1]
    /\ UNCHANGED <<activeUsers, calls, cronTasks, handler>>
    /\ UNCHANGED <<renderVars, apiVars>>

\* An awaited step of the report throws: the catch of the report logs the
\* error and throws it again.
ReportFails ==
  \E i \in 1 .. Len(ops) : \E j \in 1 .. Len(ops[i].attempts) :
    /\ ReportAwaits(i, j)
    /\ StepOf(i, j) # "cleanup"
    /\ ops' = [ops EXCEPT ![i].attempts[j].status = "rejected"]
    /\ UNCHANGED <<activeUsers, calls, cronTasks, handler>>
    /\ UNCHANGED <<renderVars, apiVars>>

\* fs.unlinkSync on the first n paths of files.
Unlinked(files, n) == {files[k] : k \in 1 .. n}

\* cleanupTempFiles has unlinked the files gone; the report returns.
CleanedUp(i, j, gone) ==
  /\ tmpDir' = [p \in DOMAIN tmpDir \ gone |-> tmpDir[p]]
  /\ partial' = partial \ gone
  /\ ops' = [ops EXCEPT ![i].attempts[j].pc = @ + 1,
                        ![i].attempts[j].status = "fulfilled"]

\* this.cleanupTempFiles([...]) as the last step of a report: every path
\* that exists is unlinked, in order; an unlinkSync that throws ends the
\* loop, and the catch of cleanupTempFiles logs a warning.
Cleanup ==
  \E i \in 1 .. Len(ops) : \E j \in 1 .. Len(ops[i].attempts) :
    /\ ReportAwaits(i, j)
    /\ StepOf(i, j) = "cleanup"
    /\ \E n \in 0 .. Len(ops[i].attempts[j].files) :
         CleanedUp(i, j, Unlinked(ops[i].attempts[j].files, n))
    /\ UNCHANGED <<args, budget, clock, returned, result, env>>
    /\ UNCHANGED <<activeUsers, calls, cronTasks, handler>>
    /\ UNCHANGED apiVars

\* Promise.allSettled has settled: the operation counts the outcomes and
\* returns {total, success, failed}.
AllSettled ==
  \E i \in 1 .. Len(ops) :
    /\ ops[i].status = "sending"
    /\ \A j \in 1 .. Len(ops[i].attempts) : ops[i].attempts[j].status # "running"
    /\ ops' = [ops EXCEPT
                 ![i].status = "resolved",
                 ![i].stats = <<[total |-> Len(ops[i].ids),
                                 success |-> CountSettled(ops[i].attempts, "fulfilled"),
                                 failed |-> CountSettled(ops[i].attempts, "rejected")]>>]
    /\ UNCHANGED <<activeUsers, calls, cronTasks, handler>>
    /\ UNCHANGED <<renderVars, apiVars>>

NextReport ==
  \/ SendToAllUsers
  \/ QueryFails
  \/ QuerySucceeds
  \/ GenerateChart
  \/ ReportStep
  \/ ReportFails
  \/ Cleanup
  \/ AllSettled

\* One send-to-all-users operation of any kind on a table of a few rows.
SpecReport == InitReport /\ [][NextReport]_vars

(***************************************************************************)
(* ScheduleHandler and the cron callbacks                                  *)
(***************************************************************************)
\* The fields of the handler and the tasks node-cron holds.
Schedule == [tasks |-> cronTasks, handler |-> handler]

\* A guard that never finds a task.
HasTaskNever(sch, kind) == FALSE

\* if (this.weeklyTask)
HasTask(sch, kind) == sch.handler[kind] # 0

\* startWeeklySchedule, startHourlySchedule, startDailySchedule: return
\* when the task of the kind is set, else this.xTask = cron.schedule(...).
Start(sch, kind) ==
  IF HasTask(sch, kind) THEN sch
  ELSE [tasks |-> Append(sch.tasks, [kind |-> kind, running |-> TRUE]),
        handler |-> [sch.handler EXCEPT ![kind] = Len(sch.tasks) + 1]]

\* stopWeeklySchedule, stopHourlySchedule, stopDailySchedule: when the task
\* of the kind is set, this.xTask.stop() and this.xTask = null.
Stop(sch, kind) ==
  IF HasTask(sch, kind)
  THEN [tasks |-> [sch.tasks EXCEPT ![sch.handler[kind]].running = FALSE],
        handler |-> [sch.handler EXCEPT ![kind] = 0]]
  ELSE sch

\* The handler and node-cron after a call.
Scheduled(sch) == cronTasks' = sch.tasks /\ handler' = sch.handler

\* startWeeklySchedule(), startHourlySchedule(), startDailySchedule()
StartSchedule ==
  \E kind \in Kinds :
    /\ Len(Start(Schedule, kind).tasks) <= MaxTasks
    /\ Scheduled(Start(Schedule, kind))
    /\ UNCHANGED <<activeUsers, calls, ops>>
    /\ UNCHANGED <<renderVars, apiVars>>

\* stopWeeklySchedule(), stopHourlySchedule(), stopDailySchedule()
StopSchedule ==
  \E kind \in Kinds :
    /\ Scheduled(Stop(Schedule, kind))
    /\ UNCHANGED <<activeUsers, calls, ops>>
    /\ UNCHANGED <<renderVars, apiVars>>

\* The three start methods in the order weekly, hourly, daily.
StartAll(sch) == Start(Start(Start(sch, "weekly"), "hourly"), "daily")

\* The three stop methods in the order weekly, hourly, daily.
StopAll(sch) == Stop(Stop(Stop(sch, "weekly"), "hourly"), "daily")

StartAllSchedules ==
  /\ Len(StartAll(Schedule).tasks) <= MaxTasks
  /\ Scheduled(StartAll(Schedule))
  /\ UNCHANGED <<activeUsers, calls, ops>>
  /\ UNCHANGED <<renderVars, apiVars>>

StopAllSchedules ==
  /\ Scheduled(StopAll(Schedule))
  /\ UNCHANGED <<activeUsers, calls, ops>>
  /\ UNCHANGED <<renderVars, apiVars>>

\* The operations called from cron callbacks.
Ticked == {i \in 1 .. Len(ops) : ops[i].task # 0}

\* No rejection has left a callback unhandled, which ends the process.
ProcessAlive == \A i \in Ticked : ops[i].logged # "unhandled"

\* The time of the schedule of a kind comes: a task of the kind that has
\* not been stopped fires, and its callback calls the send-to-all-users
\* operation of its kind and awaits it.
CronTick ==
  \E t \in 1 .. Len(cronTasks) :
    /\ calls # <<>>
    /\ ProcessAlive
    /\ cronTasks[t].running
    /\ cronTasks[t].kind = Head(calls)
    /\ ops' = Append(ops, NewOp(cronTasks[t].kind, t))
    /\ calls' = Tail(calls)
    /\ UNCHANGED <<activeUsers, cronTasks, handler>>
    /\ UNCHANGED <<renderVars, apiVars>>

\* A callback without a catch.
CallbackLogsResult(status) ==
  IF status = "resolved" THEN "info" ELSE "unhandled"

\* The end of the callback: logger.info with the result, or catch (error)
\* { logger.error(...) }.
CallbackLogs(status) == IF status = "resolved" THEN "info" ELSE "error"

\* The operation a callback awaits has settled: the callback logs and
\* returns.
CallbackReturns ==
  \E i \in Ticked :
    /\ ops[i].status \in {"resolved", "rejected"}
    /\ ops[i].logged = ""
    /\ ops' = [ops EXCEPT ![i].logged = CallbackLogs(ops[i].status)]
    /\ UNCHANGED <<activeUsers, calls, cronTasks, handler>>
    /\ UNCHANGED <<renderVars, apiVars>>

NextSchedule ==
  \/ StartSchedule
  \/ StopSchedule
  \/ StartAllSchedules
  \/ StopAllSchedules
  \/ CronTick
  \/ QueryFails
  \/ QuerySucceeds
  \/ AllSettled
  \/ CallbackReturns

NextHandler ==
  \/ StartSchedule
  \/ StopSchedule
  \/ StartAllSchedules
  \/ StopAllSchedules

\* The start and stop calls on a ScheduleHandler.
SpecHandler == InitSchedule /\ [][NextHandler]_vars

\* A ScheduleHandler whose schedules are started and stopped while its
\* tasks fire, with no active user in the table.
SpecSchedule == InitSchedule /\ [][NextSchedule]_vars

(***************************************************************************)
(* HourlyReporter: the hours queried and the stacks of the last hours      *)
(***************************************************************************)
\* Instants are whole hours since 1970-01-01T00:00Z, the process time zone
\* a whole number of hours ahead of UTC.
\* Date.prototype.getHours(): the hour of the day in the process time zone.
GetHours(t, offset) == (t + offset) % 24

\* toISOString().split('T')[0]: the day in UTC, as days since 1970-01-01.
IsoDate(t) == t \div 24

\* setHours(h) on a copy of t: hour h of the local day of t; h < 0 falls
\* on the day before.
SetHours(t, offset, h) == ((t + offset) \div 24) * 24 + h - offset

\* setDate(getDate() - 1) on a copy of t: the same local time a day before.
SetDateBack(t) == t - 24

\* .eq('date', dateStr).eq('hour', hour) for targetDate; instant is the
\* hour the code means to ask for.
QueryOf(targetDate, offset) ==
  [date |-> IsoDate(targetDate), hour |-> GetHours(targetDate, offset),
   instant |-> targetDate]

\* targetDate.setHours(now.getHours() - hourOffset) for the hours
\* hoursCount - 1, ..., 0 before now, oldest first.
RecentQueries(now, offset) ==
  [i \in 1 .. HoursCount |->
     QueryOf(SetHours(now, offset, GetHours(now, offset) - (HoursCount - i)), offset)]

\* fetchHourlyAppUsage(userId, todayDate, currentHour)
CurrentHourQuery(now, offset) ==
  [date |-> IsoDate(now), hour |-> GetHours(now, offset), instant |-> now]

\* previousHour = (currentHour - 1 + 24) % 24 on todayDate, on the date of
\* yesterday when currentHour is 0.
PreviousHourQuery(now, offset) ==
  [date |-> IF GetHours(now, offset) = 0 THEN IsoDate(SetDateBack(now))
            ELSE IsoDate(now),
   hour |-> (GetHours(now, offset) - 1 + 24) % 24,
   instant |-> now - 1]

\* The labels `${hour}時` of the queried hours.
HourLabelsOf(queries) == [i \in 1 .. Len(queries) |-> queries[i].hour]

\* The apps of one hour: none when the query failed, else the rows with an
\* app name and a usage time > 0.
AppsOfHour(response) ==
  IF response.error THEN <<>>
  ELSE SelectSeq(response.data, LAMBDA r : r.app_name # "" /\ r.usage_time > 0)

\* allAppNames: the names in the order in which the hours first show them.
RECURSIVE AllAppNames(_, _)
AllAppNames(hourlyData, n) ==
  IF n = 0 THEN <<>>
  ELSE Dedupe(AllAppNames(hourlyData, n - 1)
                \o [k \in 1 .. Len(hourlyData[n]) |-> hourlyData[n][k].app_name])

\* hourData.apps.find(app => app.appName === appName): the usage of the
\* first row of the app, 0 when the hour has none.
UsageIn(apps, appName) ==
  IF \E k \in 1 .. Len(apps) : apps[k].app_name = appName
  THEN apps[CHOOSE k \in 1 .. Len(apps) :
              /\ apps[k].app_name = appName
              /\ \A j \in 1 .. k - 1 : apps[j].app_name # appName].usage_time
  ELSE 0

\* The entry of appUsageMap for an app.
AppUsage(hourlyData, appName) ==
  [name |-> appName,
   totalUsage |-> SeqSum([i \in 1 .. HoursCount |-> UsageIn(hourlyData[i], appName)]),
   hourlyUsage |-> [i \in 1 .. HoursCount |-> UsageIn(hourlyData[i], appName)]]

\* app behind the entries of sorted whose total is not smaller.
InsertByTotal(sorted, app) ==
  SelectSeq(sorted, LAMBDA a : a.totalUsage >= app.totalUsage)
    \o <<app>>
    \o SelectSeq(sorted, LAMBDA a : a.totalUsage < app.totalUsage)

\* .sort((a, b) => b.totalUsage - a.totalUsage): by total, largest first,
\* equal totals in their order.
RECURSIVE SortByTotal(_)
SortByTotal(apps) ==
  IF apps = <<>> THEN <<>>
  ELSE InsertByTotal(SortByTotal(SubSeq(apps, 1, Len(apps) - 1)), apps[Len(apps)])

TopCount == 5

\* A slice that keeps every app.
EveryApp(apps) == apps

\* .slice(0, 5)
TopApps(apps) ==
  SubSeq(apps, 1, IF Len(apps) < TopCount THEN Len(apps) ELSE TopCount)

\* sortedApps.map(app => ({ appName: app.name, values: app.hourlyUsage }))
StackDataOf(sortedApps) ==
  [k \in 1 .. Len(sortedApps) |->
     [appName |-> sortedApps[k].name, values |-> sortedApps[k].hourlyUsage]]

\* The apps with a total > 0, sorted and cut to the top five.
AppStackDataOf(hourlyData, allAppNames) ==
  StackDataOf(TopApps(SortByTotal(SelectSeq(
    [j \in 1 .. Len(allAppNames) |-> AppUsage(hourlyData, allAppNames[j])],
    LAMBDA app : app.totalUsage > 0))))

\* fetchHourlyAppStackData: appStackData for the answers to the queries
\* of the hours.
AppStackData(answers) ==
  AppStackDataOf([i \in 1 .. HoursCount |-> AppsOfHour(answers[i])],
                 AllAppNames([i \in 1 .. HoursCount |-> AppsOfHour(answers[i])],
                             HoursCount))

\* What a function of HourlyReporter returns.
Fetched(fn, queries, hours, stacks) ==
  [fn |-> fn, status |-> "fetched", path |-> <<>>, canvas |-> <<>>,
   steps |-> <<>>, error |-> "", queries |-> queries, hours |-> hours,
   stacks |-> stacks]

\* A query of fetchRecentHourlyTrend fails: throw new Error(...).
FetchThrows(fn) ==
  [fn |-> fn, status |-> "threw", path |-> <<>>, canvas |-> <<>>,
   steps |-> <<>>, error |-> "Error", queries |-> <<>>, hours |-> <<>>,
   stacks |-> <<>>]

\* The caller gets the outcome of a function of HourlyReporter.
Fetches(outcome) ==
  /\ result' = outcome
  /\ budget' = budget - 1
  /\ UNCHANGED <<args, clock, tmpDir, returned, env, partial>>
  /\ UNCHANGED <<apiVars, jobVars>>

\* fetchRecentHourlyTrend(userId): the labels of the last six hours, or
\* the error of a query.
FetchRecentHourlyTrend ==
  /\ budget > 0 /\ args.type = "hourly"
  /\ \/ Fetches(Fetched("fetchRecentHourlyTrend",
                        RecentQueries(args.now, args.offset),
                        HourLabelsOf(RecentQueries(args.now, args.offset)), <<>>))
     \/ Fetches(FetchThrows("fetchRecentHourlyTrend"))

\* fetchHourlyAppStackData(userId)
FetchHourlyAppStackData ==
  /\ budget > 0 /\ args.type = "hourly"
  /\ Fetches(Fetched("fetchHourlyAppStackData",
                     RecentQueries(args.now, args.offset),
                     HourLabelsOf(RecentQueries(args.now, args.offset)),
                     AppStackData(args.answers)))

\* prepareHourlyReportData(userId): the queries of the current and the
\* previous hour, then hourlyTrend and hourlyAppStackData, which
\* sendHourlyReport passes to generateHourlyStackedBarChart.
PrepareHourlyReportData ==
  /\ budget > 0 /\ args.type = "hourly"
  /\ \/ Fetches(Fetched("prepareHourlyReportData",
                        <<CurrentHourQuery(args.now, args.offset),
                          PreviousHourQuery(args.now, args.offset)>>
                          \o RecentQueries(args.now, args.offset)
                          \o RecentQueries(args.now, args.offset),
                        HourLabelsOf(RecentQueries(args.now, args.offset)),
                        AppStackData(args.answers)))
     \/ Fetches(FetchThrows("prepareHourlyReportData"))

HourlyNext ==
  \/ FetchRecentHourlyTrend
  \/ FetchHourlyAppStackData
  \/ PrepareHourlyReportData

\* One call of a function of HourlyReporter at any hour of a day, in a
\* process of any of a few time zones.
SpecClock == InitClock /\ [][HourlyNext]_vars

\* One call of a function of HourlyReporter on any rows of the last hours.
SpecUsage == InitUsage /\ [][HourlyNext]_vars

(***************************************************************************)
(* Properties                                                              *)
(***************************************************************************)
CartesianFns ==
  {"generateBarChart", "generateLineChart", "generateStackedBarChart",
   "generateHourlyStackedBarChart"}

StackedFns == {"generateStackedBarChart", "generateHourlyStackedBarChart"}

\* The latest call has returned the path of an image.
Returned == result.status = "returned"

\* The image of the latest call, which has returned.
Drawn == result.canvas[1]

\* The latest call has returned a regular chart.
DrewChart == Returned /\ ~IsFallback(Drawn)

\* Both arguments of a stacked call are given.
StackArgsGiven == "labels" \in DOMAIN args /\ "stacks" \in DOMAIN args

\* The labels, values or stacks passed to the call are an empty array.
EmptyInput ==
  IF args.type = "series" THEN args.labels = <<>> \/ args.data = <<>>
  ELSE StackArgsGiven /\ (args.labels = <<>> \/ args.stacks = <<>>)

\* C1: a Cartesian renderer called with empty labels, values or stacks
\* returns the fallback image and does not throw; it never draws a regular
\* chart for such input.
C1_EmptyInputFallsBack ==
  (result.fn \in CartesianFns /\ EmptyInput) => (Returned /\ IsFallback(Drawn))

\* A stack is valid for n buckets when it has exactly n values.
IsValidStack(app, n) == HasValues(app) /\ Len(app.values) = n

\* The positions of the valid stacks of the call.
ValidPositions ==
  {k \in 1 .. Len(args.stacks) : IsValidStack(args.stacks[k], Len(args.labels))}

\* The total of bucket i over the valid stacks.
ValidTotal(i) ==
  SeqSum([k \in 1 .. Len(args.stacks) |->
            IF k \in ValidPositions THEN args.stacks[k].values[i] ELSE 0])

\* The canvas uses the valid stacks and no other: totals, segments, legend.
UsesOnlyValidStacks(c) ==
  /\ c.totals = [i \in 1 .. Len(args.labels) |-> ValidTotal(i)]
  /\ \A j \in 1 .. Len(c.bars) :
       \E k \in ValidPositions : c.bars[j].name = args.stacks[k].appName
  /\ Len(c.legend) = Cardinality(ValidPositions)
  /\ {c.legend[j].name : j \in 1 .. Len(c.legend)}
       = {args.stacks[k].appName : k \in ValidPositions}

\* C2: generateStackedBarChart leaves a stack whose number of values differs
\* from the number of labels out of the totals, the segments and the legend,
\* and returns the fallback image when there are no labels, no stacks or no
\* valid stack.
C2_DailyExcludesInvalidStacks ==
  (result.fn = "generateStackedBarChart" /\ StackArgsGiven) =>
    /\ Returned
    /\ IF args.labels = <<>> \/ args.stacks = <<>> \/ ValidPositions = {}
       THEN IsFallback(Drawn)
       ELSE ~IsFallback(Drawn) /\ UsesOnlyValidStacks(Drawn)

\* C3: generateHourlyStackedBarChart never throws; it returns the fallback
\* image with the "no data" message when hourLabels or the stack list is
\* missing or empty, the fallback image with the "malformed data" message
\* when no stack has as many values as there are hour labels, and otherwise
\* a chart whose totals, segments and legend use the valid stacks only.
C3_HourlyUsesValidStacks ==
  result.fn = "generateHourlyStackedBarChart" =>
    /\ Returned
    /\ IF ~StackArgsGiven THEN Drawn = EmptyBarChart(MsgNoHourlyData)
       ELSE IF args.labels = <<>> \/ args.stacks = <<>>
       THEN Drawn = EmptyBarChart(MsgNoHourlyData)
       ELSE IF ValidPositions = {} THEN Drawn = EmptyBarChart(MsgMalformed)
       ELSE ~IsFallback(Drawn) /\ UsesOnlyValidStacks(Drawn)

\* C3, reached: an hourly chart drawn from fewer stacks than were passed.
C3_Witness ==
  /\ result.fn = "generateHourlyStackedBarChart"
  /\ DrewChart
  /\ Drawn.legend # <<>>
  /\ Len(Drawn.legend) < Len(args.stacks)

\* The heights of the segments drawn at bucket i.
BucketHeights(c, i) ==
  [j \in 1 .. Len(SelectSeq(c.bars, LAMBDA b : b.bucket = i)) |->
     SelectSeq(c.bars, LAMBDA b : b.bucket = i)[j].h]

\* C4: in every chart of a stacked renderer the segment heights of a bucket
\* add up to innerHeight - yScale(total of the bucket), within 1 px.
C4_StackingInvariant ==
  (result.fn \in StackedFns /\ DrewChart) =>
    \A i \in 1 .. Len(Drawn.totals) :
      QLe(QAbs(QSub(QSum(BucketHeights(Drawn, i)),
                    QSub(QInt(innerHeight),
                         YScale(Drawn.domainMax, QInt(Drawn.totals[i]))))),
          QInt(1))

\* C5: the paths returned by any two render calls differ.
C5_ReturnedPathsDiffer ==
  \A i, j \in 1 .. Len(returned) : i # j => returned[i] # returned[j]

\* The positions of the zipped (label, value) pairs with a value > 0.
PositivePositions ==
  {i \in 1 .. Len(args.labels) : i <= Len(args.data) /\ args.data[i] > 0}

\* The j-th position with a value > 0, in input order.
PositivePosition(j) ==
  CHOOSE i \in PositivePositions :
    Cardinality({m \in PositivePositions : m < i}) = j - 1

\* C6: generatePieChart returns the fallback image exactly when labels is
\* empty, values is empty or no pair has a value > 0; otherwise the slices
\* and the legend entries are exactly the pairs with a value > 0, in input
\* order.
C6_PieRendersPositivePairs ==
  result.fn = "generatePieChart" =>
    /\ Returned
    /\ IsFallback(Drawn) <=>
         (args.labels = <<>> \/ args.data = <<>> \/ PositivePositions = {})
    /\ ~IsFallback(Drawn) =>
         /\ Len(Drawn.slices) = Cardinality(PositivePositions)
         /\ Len(Drawn.legend) = Cardinality(PositivePositions)
         /\ \A j \in 1 .. Len(Drawn.slices) :
              /\ Drawn.slices[j].label = args.labels[PositivePosition(j)]
              /\ Drawn.slices[j].value = args.data[PositivePosition(j)]
              /\ Drawn.legend[j].name = args.labels[PositivePosition(j)]

\* C6, reached: a pie chart drawn with a pair left out.
C6_Witness ==
  /\ result.fn = "generatePieChart"
  /\ DrewChart
  /\ Drawn.slices # <<>>
  /\ Len(Drawn.slices) < Len(args.labels)

\* The sum of the values > 0 of the zipped pairs.
PositiveTotal ==
  SeqSum([i \in 1 .. Len(args.labels) |->
            IF i \in PositivePositions THEN args.data[i] ELSE 0])

\* The displayed percentages of the legend, in tenths of a percent.
PercentTenths(c) == [j \in 1 .. Len(c.legend) |-> c.legend[j].percentTenths]

\* C7: every percentage of a pie legend is 100 * value / total rounded to
\* one decimal, total the sum of the retained values; the displayed
\* percentages add up to 100 within 0.05 per slice; 120 and 90 display 57.1%
\* and 42.9%.
C7_PiePercentages ==
  (result.fn = "generatePieChart" /\ DrewChart) =>
    /\ \A j \in 1 .. Len(Drawn.legend) :
         2 * Abs(Drawn.legend[j].percentTenths * PositiveTotal
                   - 1000 * Drawn.slices[j].value) <= PositiveTotal
    /\ 2 * Abs(SeqSum(PercentTenths(Drawn)) - 1000) <= Len(Drawn.legend)
    /\ (args.data = <<120, 90>> /\ Len(args.labels) = 2) =>
         PercentTenths(Drawn) = <<571, 429>>

\* C7, reached: the legend of the values 120 and 90.
C7_Witness ==
  /\ result.fn = "generatePieChart"
  /\ DrewChart
  /\ args.data = <<120, 90>>
  /\ PercentTenths(Drawn) = <<571, 429>>

\* Every value of the call (every bucket total of a stacked call) is zero,
\* and there is at least one.
AllZero ==
  IF args.type = "series"
  THEN args.data # <<>> /\ \A i \in 1 .. Len(args.data) : args.data[i] = 0
  ELSE /\ Drawn.totals # <<>>
       /\ \A i \in 1 .. Len(Drawn.totals) : Drawn.totals[i] = 0

\* C8: a chart of a Cartesian renderer whose values are all zero has the
\* domain maximum 10, gridlines at more than one y, and the value 0 on the
\* baseline y = innerHeight.
C8_ZeroDomainFloor ==
  (result.fn \in CartesianFns /\ DrewChart /\ AllZero) =>
    /\ Drawn.domainMax = QInt(10)
    /\ Cardinality({Drawn.grid[j].y : j \in 1 .. Len(Drawn.grid)}) > 1
    /\ YScale(Drawn.domainMax, QInt(0)) = QInt(innerHeight)

\* C9: generateBarChart on labels and values of equal non-zero length and
\* values >= 0: domainMax >= max(values), and every bar has the height
\* innerHeight * value / domainMax, 0 for the value 0, between 0 and
\* innerHeight.
C9_BarHeightsProportional ==
  (/\ result.fn = "generateBarChart"
   /\ Returned
   /\ Len(args.labels) = Len(args.data)
   /\ args.data # <<>>
   /\ \A i \in 1 .. Len(args.data) : args.data[i] >= 0) =>
    /\ QLe(QInt(SeqMax(args.data)), Drawn.domainMax)
    /\ \A i \in 1 .. Len(args.data) :
         /\ QMul(Drawn.bars[i].h, Drawn.domainMax)
              = QInt(innerHeight * args.data[i])
         /\ args.data[i] = 0 => Drawn.bars[i].h = QInt(0)
         /\ QLe(QInt(0), Drawn.bars[i].h)
         /\ QLe(Drawn.bars[i].h, QInt(innerHeight))

\* The bands of the chart, in label order, are strictly increasing, do not
\* overlap and lie within the plot width.
BandsOrdered(c) ==
  /\ \A i \in 1 .. Len(c.bandStarts) - 1 :
       /\ QLt(c.bandStarts[i], c.bandStarts[i + 1])
       /\ QLe(QAdd(c.bandStarts[i], c.bandWidth), c.bandStarts[i + 1])
  /\ QLe(QInt(0), c.bandStarts[1])
  /\ QLe(QAdd(c.bandStarts[Len(c.bandStarts)], c.bandWidth), QInt(c.plotWidth))

\* A Cartesian renderer has drawn a chart for at least one label.
DrewBands ==
  /\ result.fn \in CartesianFns
  /\ DrewChart
  /\ Len(Drawn.bandStarts) >= 1

\* C10, as stated: the band starts of every labels array of length N >= 1
\* are strictly increasing, the bands do not overlap, start[0] >= 0 and
\* start[N-1] + bandWidth <= plot width.
C10_BandsOrderedForEveryArray == DrewBands => BandsOrdered(Drawn)

PairwiseDistinct(labels) ==
  \A i, j \in 1 .. Len(labels) : i # j => labels[i] # labels[j]

\* C10, amended: the band starts of every array of N >= 1 pairwise distinct
\* labels are strictly increasing, the bands do not overlap, start[0] >= 0
\* and start[N-1] + bandWidth <= plot width.
C10_BandsOrderedForDistinctLabels ==
  (DrewBands /\ PairwiseDistinct(args.labels)) => BandsOrdered(Drawn)

\* C10, reached: a chart with the bands of two distinct labels.
C10_Witness ==
  /\ DrewBands
  /\ PairwiseDistinct(args.labels)
  /\ Len(Drawn.bandStarts) >= 2
  /\ BandsOrdered(Drawn)

\* The steps of a sequence of steps.
StepsOf(steps) == {steps[i] : i \in 1 .. Len(steps)}

\* The latest render call returned the path of a file that holds the
\* complete PNG: every step ran, none of them a failing one, the write
\* last, and the file exists and is not a partial one.
ReturnsCompleteFile ==
  /\ result'.status = "returned"
  /\ result'.error = ""
  /\ env \notin StepsOf(result'.steps)
  /\ result'.steps[Len(result'.steps)] = "writeFile"
  /\ result'.path[1] \in DOMAIN tmpDir'
  /\ result'.path[1] \notin partial'
  /\ returned' = Append(returned, result'.path[1])

\* The latest render call failed: no path is returned, the error of the
\* failing step reaches the caller, and the failing step was run once,
\* not again after it failed.
FailsWithError ==
  /\ result'.status = "threw"
  /\ result'.path = <<>>
  /\ returned' = returned
  /\ result'.error # ""
  /\ result'.error \notin StepsOf(result'.steps)
  /\ result'.error \in Faults => result'.error = env

\* C11: a render call either returns the path of a file into which the
\* complete encoded PNG was written, or fails with the error propagated to
\* the caller; when canvas creation, PNG encoding, scratch-directory
\* creation or the file write fails, no path is returned, the failure is
\* neither retried nor swallowed, and no path of a partially written file
\* is returned.
C11_AllOrNothing ==
  [][budget' # budget =>
       /\ ReturnsCompleteFile \/ FailsWithError
       /\ env \in Faults => FailsWithError]_vars

\* C11, reached: a write failed and left a partial file behind, and the
\* call returned no path.
C11_Witness ==
  /\ result.status = "threw"
  /\ result.error = "writeFile"
  /\ result.path = <<>>
  /\ partial # {}
  /\ \A i \in 1 .. Len(returned) : returned[i] \notin partial

\* The files that render calls have returned and that hold their complete
\* image.
IntactFiles == {p \in DOMAIN tmpDir : tmpDir[p] > 0 /\ p \notin partial}

\* C12: a render call that fails (e.g. its file write throws) does not
\* change the outcome of any other call: the image files the other calls
\* have returned stay as they were written.
C12_FailureIsolated ==
  [][(budget' # budget /\ result'.status = "threw") =>
       \A p \in IntactFiles :
         p \in DOMAIN tmpDir' /\ tmpDir'[p] = tmpDir[p] /\ p \notin partial']_vars

\* Every canvas a call creates is painted next, and nothing else is drawn
\* before the first is painted.
PaintedFirst(steps) ==
  /\ \A i \in 1 .. Len(steps) :
       steps[i] = "createCanvas" =>
         i < Len(steps) /\ steps[i + 1] = "fillBackground"
  /\ \A i \in 1 .. Len(steps) :
       steps[i] \in DrawSteps \ {"fillBackground"} =>
         \E j \in 1 .. i - 1 : steps[j] = "fillBackground"

\* generateBarChart is called with labels and values of equal non-zero
\* length.
BarChartOfPairs ==
  /\ result.fn = "generateBarChart"
  /\ Len(args.labels) = Len(args.data)
  /\ Len(args.labels) > 0

\* C13: every render entry point, the fallback renderers included, draws
\* on a canvas of 800 x 400 px that it paints opaque white before any
\* other drawing; generateBarChart with labels and values of equal
\* non-zero length returns the path of an existing, completely written
\* 800 x 400 image.
C13_WhiteCanvas ==
  /\ Returned =>
       /\ Drawn.width = 800 /\ Drawn.height = 400
       /\ Drawn.background = "#ffffff"
       /\ PaintedFirst(result.steps)
       /\ "fillBackground" \in StepsOf(result.steps)
  /\ BarChartOfPairs =>
       /\ Returned
       /\ Drawn.kind = "bar_chart"
       /\ result.path[1] \in DOMAIN tmpDir
       /\ result.path[1] \notin partial

\* C13, reached: generateBarChart has returned the image of two (label,
\* value) pairs.
C13_Witness ==
  /\ BarChartOfPairs
  /\ Len(args.labels) = 2
  /\ Returned
  /\ Drawn.width = 800 /\ Drawn.height = 400
  /\ Len(Drawn.bars) = 2

\* The requests that have made a handler call a send-to-all-users
\* operation.
Triggering == {invocations[k].request : k \in 1 .. Len(invocations)}

\* C14: a POST to a trigger route starts report generation only if the
\* request carries the configured API key; a request without a valid key
\* never causes a send-to-all-users operation to run.
C14_TriggerNeedsApiKey ==
  \A id \in Triggering : requests[id].auth = "valid"

\* The send-to-all-users operations called for request id.
InvocationsOf(id) ==
  {k \in 1 .. Len(invocations) : invocations[k].request = id}

\* The responses to the requests to the hourly trigger route.
HourlyResponses ==
  {k \in 1 .. Len(responses) :
     requests[responses[k].request].path = "/api/trigger-hourly-reports"}

\* C15: a POST to /api/trigger-hourly-reports invokes the hourly
\* reporter's sendHourlyReportToAllUsers exactly once and answers 200 with
\* success: true and the stats it resolved with; it answers 500 only when
\* that operation itself fails.
C15_HourlyTriggerRunsReporter ==
  \A k \in HourlyResponses :
    /\ Cardinality(InvocationsOf(responses[k].request)) = 1
    /\ \A j \in InvocationsOf(responses[k].request) :
         /\ invocations[j].reporter = "HourlyReporter"
         /\ invocations[j].op = "sendHourlyReportToAllUsers"
    /\ responses[k].status \in {200, 500}
    /\ responses[k].status = 200 =>
         responses[k].success /\ Len(responses[k].stats) = 1
    /\ responses[k].status = 500 => responses[k].error = "reporter"

\* C16: in generatePieChart the slices are drawn in the input order of the
\* retained pairs; the first starts at angle 0, each starts where the
\* previous one ends, each spans value / total of the circle, and the last
\* ends at the full circle (angles in turns, 1 = 2 pi); slices are not
\* re-sorted by value.
C16_PieSlicesInInputOrder ==
  (result.fn = "generatePieChart" /\ DrewChart) =>
    /\ Len(Drawn.slices) = Cardinality(PositivePositions)
    /\ Len(Drawn.slices) >= 1
    /\ \A j \in 1 .. Len(Drawn.slices) :
         /\ Drawn.slices[j].label = args.labels[PositivePosition(j)]
         /\ Drawn.slices[j].value = args.data[PositivePosition(j)]
         /\ QSub(Drawn.slices[j].endAngle, Drawn.slices[j].startAngle)
              = Q(Drawn.slices[j].value, PositiveTotal)
         /\ j > 1 => Drawn.slices[j].startAngle = Drawn.slices[j - 1].endAngle
    /\ Drawn.slices[1].startAngle = QInt(0)
    /\ Drawn.slices[Len(Drawn.slices)].endAngle = QInt(1)

\* C16, reached: a pie chart of two slices, the smaller value first.
C16_Witness ==
  /\ result.fn = "generatePieChart"
  /\ DrewChart
  /\ Len(Drawn.slices) = 2
  /\ Drawn.slices[1].value < Drawn.slices[2].value
  /\ Drawn.slices[1].startAngle = QInt(0)
  /\ Drawn.slices[2].endAngle = QInt(1)

\* The positions of the steps of a set in the latest call.
StepPositions(kinds) ==
  {i \in 1 .. Len(result.steps) : result.steps[i] \in kinds}

\* The PNG is encoded exactly once, after the last drawing step.
SerializedOnceAtEnd ==
  /\ Cardinality(StepPositions({"toBuffer"})) = 1
  /\ \A i \in StepPositions(DrawSteps), j \in StepPositions({"toBuffer"}) : i < j

\* C17, as stated: in every render call no drawing operation happens
\* before the band scale and the linear scale have been computed, none
\* happens after the PNG serialization, and the serialization happens
\* exactly once, after the last drawing operation.
C17_ScalesBeforeAnyDrawing ==
  Returned =>
    /\ \A i \in StepPositions(DrawSteps), j \in StepPositions(ScaleSteps) : j < i
    /\ SerializedOnceAtEnd

\* C17, amended: once the canvas is painted white, no drawing operation
\* happens before the band scale and the linear scale have been computed;
\* none happens after the PNG serialization, which happens exactly once,
\* after the last drawing operation.
C17_ScalesBeforeChartDrawing ==
  Returned =>
    /\ \A i \in StepPositions(DrawSteps \ {"fillBackground"}),
          j \in StepPositions(ScaleSteps) : j < i
    /\ SerializedOnceAtEnd

\* C17, reached: a stacked chart with both scales, the title and the
\* legend has been drawn and encoded.
C17_Witness ==
  /\ result.fn = "generateStackedBarChart"
  /\ DrewChart
  /\ Cardinality(StepPositions(ScaleSteps)) = 2
  /\ StepPositions({"title", "legend", "segments"}) # {}
  /\ SerializedOnceAtEnd

\* The domain maximum of the chart is at least the total of every bucket
\* over the valid stacks, times 1.1 in generateHourlyStackedBarChart.
DomainCoversTotals ==
  \A i \in 1 .. Len(args.labels) :
    IF result.fn = "generateHourlyStackedBarChart"
    THEN QLe(Q(11 * ValidTotal(i), 10), Drawn.domainMax)
    ELSE QLe(QInt(ValidTotal(i)), Drawn.domainMax)

\* Every segment of the chart lies at or below the top of the plot area.
BarsInsidePlot ==
  \A j \in 1 .. Len(Drawn.bars) : QLe(QInt(0), Drawn.bars[j].y)

\* Every total label of the chart is anchored at y >= top.
TotalLabelsBelow(top) ==
  \A j \in 1 .. Len(Drawn.totalLabels) :
    QLe(QInt(top), Drawn.totalLabels[j].y)

SegmentsAt(i) == SelectSeq(Drawn.bars, LAMBDA b : b.bucket = i)

\* The value the renderer of the latest call reads for stack k at bucket
\* i: the hourly renderer reads the valid stacks only.
UsedValue(k, i) ==
  IF result.fn = "generateHourlyStackedBarChart"
  THEN IF k \in ValidPositions THEN args.stacks[k].values[i] ELSE 0
  ELSE OrZero(At(args.stacks[k].values, i))

\* The stacks with a value > 0 at bucket i, in stack order.
PositiveStacks(i) ==
  SelectSeq([k \in 1 .. Len(args.stacks) |-> k], LAMBDA k : UsedValue(k, i) > 0)

\* The segments of bucket i are those of the stacks with a value > 0, in
\* stack order; the first stands on the baseline and each later one on
\* the top of the one before.
StackedBottomUp(i) ==
  /\ Len(SegmentsAt(i)) = Len(PositiveStacks(i))
  /\ \A j \in 1 .. Len(SegmentsAt(i)) :
       /\ SegmentsAt(i)[j].name = args.stacks[PositiveStacks(i)[j]].appName
       /\ SegmentsAt(i)[j].value[1] = UsedValue(PositiveStacks(i)[j], i)
       /\ QLt(QInt(0), SegmentsAt(i)[j].h)
       /\ QAdd(SegmentsAt(i)[j].y, SegmentsAt(i)[j].h)
            = IF j = 1 THEN QInt(innerHeight) ELSE SegmentsAt(i)[j - 1].y

\* C19: in each bucket of a stacked chart the segments are drawn in stack
\* order from the baseline upwards: the first drawn segment's bottom edge
\* is the baseline, each later one's bottom edge is the previous one's top
\* edge, and a stack whose value at the bucket is not positive draws
\* nothing and leaves the running offset unchanged.
C19_SegmentsStackedBottomUp ==
  (result.fn \in StackedFns /\ DrewChart) =>
    \A i \in 1 .. Len(args.labels) : StackedBottomUp(i)

\* C19, reached: a bucket with two segments, and a bucket in which the
\* first stack draws nothing and the second stands on the baseline.
C19_Witness ==
  /\ result.fn \in StackedFns
  /\ DrewChart
  /\ \E i \in 1 .. Len(args.labels) : Len(SegmentsAt(i)) = 2
  /\ \E i \in 1 .. Len(args.labels) :
       /\ Len(SegmentsAt(i)) = 1
       /\ PositiveStacks(i) = <<2>>
       /\ QAdd(SegmentsAt(i)[1].y, SegmentsAt(i)[1].h) = QInt(innerHeight)

\* The total the renderer of the latest call computes for bucket i.
UsedTotal(i) == SeqSum([k \in 1 .. Len(args.stacks) |-> UsedValue(k, i)])

\* Segment b is more than 10 % of its bucket and higher than 20 px in the
\* daily chart, more than 15 % and higher than 25 px in the hourly chart.
LargeShare(b) ==
  IF result.fn = "generateHourlyStackedBarChart"
  THEN 20 * b.value[1] > 3 * UsedTotal(b.bucket)
  ELSE 10 * b.value[1] > UsedTotal(b.bucket)

TallEnough(b) ==
  IF result.fn = "generateHourlyStackedBarChart"
  THEN QLt(QInt(25), b.h)
  ELSE QLt(QInt(20), b.h)

DrawnLabels == {Drawn.xLabels[j] : j \in 1 .. Len(Drawn.xLabels)}

\* C21: in every Cartesian chart with n >= 1 x-axis labels the label at
\* index i is drawn exactly when i mod ceil(n / 12) = 0 or i = n - 1; at
\* most 13 labels are drawn.
C21_LabelsDecimated ==
  (result.fn \in CartesianFns /\ DrewChart /\ Len(args.labels) >= 1) =>
    /\ DrawnLabels =
         {i \in 0 .. Len(args.labels) - 1 :
            \/ i % ((Len(args.labels) + 11) \div 12) = 0
            \/ i = Len(args.labels) - 1}
    /\ Len(Drawn.xLabels) <= 13

\* The legend width the renderer of the latest call reserves.
LegendWidthOf(fn) ==
  IF fn = "generateHourlyStackedBarChart" THEN HourlyLegendWidth
  ELSE DailyLegendWidth

\* The right edge of the j-th bar segment of the chart.
BarRightEdge(j) == QAdd(Drawn.bars[j].x, Drawn.bars[j].w)

\* C22: in both stacked renderers the plot width is the canvas width less
\* the left margin and the right margin widened by the legend width, the
\* legend starts 10 px right of the plot area, and every bar ends at or
\* left of the plot width, so left of the legend.
C22_LegendRightOfBars ==
  (result.fn \in StackedFns /\ DrewChart) =>
    /\ Drawn.plotWidth =
         width - marginLeft - (marginRight + LegendWidthOf(result.fn))
    /\ \A k \in 1 .. Len(Drawn.legend) :
         Drawn.legend[k].x = Drawn.plotWidth + 10
    /\ \A j \in 1 .. Len(Drawn.bars) :
         /\ QLe(BarRightEdge(j), QInt(Drawn.plotWidth))
         /\ \A k \in 1 .. Len(Drawn.legend) :
              QLt(BarRightEdge(j), QInt(Drawn.legend[k].x))

\* A stacked chart with a legend of two entries and a bar in the
\* rightmost of two bands.
C22_Witness ==
  /\ result.fn \in StackedFns
  /\ DrewChart
  /\ Len(Drawn.legend) = 2
  /\ Len(Drawn.bandStarts) = 2
  /\ \E j \in 1 .. Len(Drawn.bars) :
       /\ Drawn.bars[j].x = Drawn.bandStarts[2]
       /\ QLt(Drawn.bandStarts[1], Drawn.bandStarts[2])
       /\ QLt(QInt(Drawn.plotWidth - 100), BarRightEdge(j))

\* The valid stacks of the call, in stack order.
ValidStacks ==
  SelectSeq(args.stacks, LAMBDA app : IsValidStack(app, Len(args.labels)))

\* text is a prefix of name followed by an ellipsis.
IsEllipsized(text, name) ==
  \E p \in 0 .. Len(name) : text = SubSeq(name, 1, p) \o "..."

\* C23: the hourly legend has exactly one entry per valid stack, in stack
\* order; a name of at most 15 characters is shown unchanged, a longer one
\* as a prefix followed by an ellipsis, and no shown name exceeds 15
\* characters.
C23_HourlyLegendNames ==
  (result.fn = "generateHourlyStackedBarChart" /\ DrewChart) =>
    /\ Len(Drawn.legend) = Len(ValidStacks)
    /\ \A k \in 1 .. Len(Drawn.legend) :
         /\ Drawn.legend[k].name = ValidStacks[k].appName
         /\ Len(Drawn.legend[k].text) <= 15
         /\ IF Len(ValidStacks[k].appName) <= 15
            THEN Drawn.legend[k].text = ValidStacks[k].appName
            ELSE IsEllipsized(Drawn.legend[k].text, ValidStacks[k].appName)

\* An hourly chart of two valid stacks, the first with a name of 15
\* characters and the second with a longer one.
C23_Witness ==
  /\ result.fn = "generateHourlyStackedBarChart"
  /\ DrewChart
  /\ Len(args.stacks) = 2
  /\ Len(Drawn.legend) = 2
  /\ Drawn.legend[1].text = "com.android.app"
  /\ Drawn.legend[2].name = "com.google.android.youtube"
  /\ Drawn.legend[2].text = "com.google.a..."

\* C29: for any number of valid stacks every legend swatch of the hourly
\* chart lies inside the canvas: its bottom edge, top margin + 25 + 20 i +
\* 15 for the stack at index i, is at most the canvas height.
C29_LegendSwatchesInsideCanvas ==
  (result.fn = "generateHourlyStackedBarChart" /\ DrewChart) =>
    \A k \in 1 .. Len(Drawn.legend) :
      /\ Drawn.legend[k].y = 25 + 20 * (k - 1)
      /\ marginTop + Drawn.legend[k].y + 15 <= Drawn.height

\* The operations whose query for the active users has succeeded.
Sending == {i \in 1 .. Len(ops) : ops[i].status \in {"sending", "resolved"}}

\* The distinct user ids of the rows of the active users.
DistinctUserIds == {activeUsers[r] : r \in 1 .. Len(activeUsers)}

\* Every distinct active user has exactly one report in operation i, and
\* every report is for an active user.
OneAttemptPerUser(i) ==
  /\ \A u \in DistinctUserIds :
       Cardinality({j \in 1 .. Len(ops[i].attempts) : ops[i].attempts[j].user = u}) = 1
  /\ \A j \in 1 .. Len(ops[i].attempts) : ops[i].attempts[j].user \in DistinctUserIds

\* The result of a resolved operation.
StatsAddUp(i) ==
  ops[i].status = "resolved" =>
    /\ Len(ops[i].stats) = 1
    /\ ops[i].stats[1].total = Cardinality(DistinctUserIds)
    /\ ops[i].stats[1].total = ops[i].stats[1].success + ops[i].stats[1].failed

\* A step in which the report j of operation i is rejected leaves the
\* other reports of the operation as they are, and the operation awaiting
\* them.
RejectionIsolated(i, j) ==
  (ops[i].attempts[j].status = "running" /\ ops'[i].attempts[j].status = "rejected") =>
    /\ ops'[i].status = "sending"
    /\ \A k \in 1 .. Len(ops[i].attempts) :
         k # j => ops'[i].attempts[k] = ops[i].attempts[k]

\* A report that is running next to a rejected one can still take its
\* next step and be fulfilled.
CanStillFulfil(i, j) ==
  ReportAwaits(i, j) =>
    \/ StepOf(i, j) = "cleanup" /\ ENABLED Cleanup
    \/ StepOf(i, j) \in ChartSteps /\ ENABLED GenerateChart
    \/ StepOf(i, j) \notin ChartSteps \cup {"cleanup"} /\ ENABLED ReportStep

\* C24: once the query for the active users of a send-to-all-users
\* operation has succeeded, every distinct active user id has exactly one
\* report attempt, the rejection of one report neither aborts nor blocks
\* another, the operation does not reject, and it resolves with total =
\* success + failed = the number of distinct user ids.
C24_AllUsersAttempted ==
  /\ [](\A i \in Sending :
          /\ OneAttemptPerUser(i)
          /\ StatsAddUp(i)
          /\ \A j \in 1 .. Len(ops[i].attempts) : CanStillFulfil(i, j))
  /\ [][\A i \in Sending :
          /\ ops'[i].status \in {"sending", "resolved"}
          /\ \A j \in 1 .. Len(ops[i].attempts) : RejectionIsolated(i, j)]_vars

\* An operation on the rows of u2, u1, u2 has resolved with one report
\* fulfilled and the other rejected.
C24_Witness ==
  /\ activeUsers = <<"u2", "u1", "u2">>
  /\ \E i \in 1 .. Len(ops) :
       /\ ops[i].status = "resolved"
       /\ ops[i].ids = <<"u2", "u1">>
       /\ ops[i].attempts[1].status = "rejected"
       /\ ops[i].attempts[2].status = "fulfilled"
       /\ ops[i].stats = <<[total |-> 2, success |-> 1, failed |-> 1]>>

\* C25: when a report of one user has completed, fulfilled or rejected,
\* none of the chart files generated during it is left in the scratch
\* directory.
C25_NoTempFileOutlivesReport ==
  \A i \in 1 .. Len(ops) : \A j \in 1 .. Len(ops[i].attempts) :
    ops[i].attempts[j].status \in {"fulfilled", "rejected"} =>
      \A k \in 1 .. Len(ops[i].attempts[j].files) :
        ops[i].attempts[j].files[k] \notin DOMAIN tmpDir

\* The tasks of a kind that have not been stopped.
RunningTasks(kind) ==
  {t \in 1 .. Len(cronTasks) : cronTasks[t].kind = kind /\ cronTasks[t].running}

\* The handler holds the one task of the kind that runs, or none runs.
OneTaskPerKind(kind) ==
  RunningTasks(kind) = IF handler[kind] = 0 THEN {} ELSE {handler[kind]}

\* What a step does to the task of a kind: a task that stays set is the
\* same task, untouched; a task that is cleared has been stopped; a task
\* that is set is a fresh one.
TaskStep(kind) ==
  /\ (handler[kind] # 0 /\ handler'[kind] # 0) =>
       /\ handler'[kind] = handler[kind]
       /\ cronTasks'[handler[kind]] = cronTasks[handler[kind]]
  /\ (handler[kind] # 0 /\ handler'[kind] = 0) =>
       ~cronTasks'[handler[kind]].running
  /\ (handler[kind] = 0 /\ handler'[kind] # 0) =>
       /\ handler'[kind] > Len(cronTasks)
       /\ cronTasks'[handler'[kind]] = [kind |-> kind, running |-> TRUE]

\* The kinds whose task a step sets, clears or stops.
KindsTouched ==
  {kind \in Kinds :
     \/ handler'[kind] # handler[kind]
     \/ \E t \in 1 .. Len(cronTasks') :
          /\ cronTasks'[t].kind = kind
          /\ (t > Len(cronTasks) \/ cronTasks'[t] # cronTasks[t])}

\* C26: after any sequence of start and stop calls on a ScheduleHandler at
\* most one cron task exists per kind, the one the handler holds; a start
\* while the task is set creates none and leaves it unchanged, a stop
\* stops and clears it so that a later start schedules a fresh one, a
\* stop without a task changes nothing, and a start or stop of one kind
\* leaves the tasks of the other kinds unchanged.
C26_OneTaskPerKind ==
  /\ [](\A kind \in Kinds : OneTaskPerKind(kind))
  /\ [][/\ \A kind \in Kinds : TaskStep(kind)
        /\ \A kind \in Kinds :
             (handler[kind] = 0 /\ Scheduled(Stop(Schedule, kind))) =>
               UNCHANGED <<cronTasks, handler>>
        /\ \A kind \in Kinds :
             (Scheduled(Start(Schedule, kind)) \/ Scheduled(Stop(Schedule, kind))) =>
               KindsTouched \subseteq {kind}]_vars

\* The weekly schedule has been started, stopped and started again while
\* the hourly task, started in between, is still the same task.
C26_Witness ==
  /\ cronTasks = <<[kind |-> "weekly", running |-> FALSE],
                   [kind |-> "hourly", running |-> TRUE],
                   [kind |-> "weekly", running |-> TRUE]>>
  /\ handler = [weekly |-> 3, hourly |-> 2, daily |-> 0]

\* The time of a schedule has come whose task has not been stopped.
TickDue ==
  /\ calls # <<>>
  /\ \E t \in 1 .. Len(cronTasks) :
       cronTasks[t].running /\ cronTasks[t].kind = Head(calls)

\* C27: a rejection of the send-to-all-users operation a cron callback
\* awaits is caught and logged inside the callback and does not leave it;
\* the step leaves every task scheduled, and the ticks that come later,
\* of the same and of the other schedules, still call their operations.
C27_CallbackCatches ==
  /\ [](\A i \in Ticked :
          (ops[i].status = "rejected" /\ ops[i].logged # "") =>
            /\ ops[i].logged = "error"
            /\ TickDue => ENABLED CronTick)
  /\ [][\A i \in Ticked :
          (ops[i].status = "rejected" /\ ops'[i].logged # ops[i].logged) =>
            /\ ops'[i].logged = "error"
            /\ UNCHANGED <<cronTasks, handler>>]_vars

\* The callback of the first tick of the hourly task has caught a
\* rejection; the same task, still scheduled, has fired again, and its
\* operation has resolved.
C27_Witness ==
  /\ Len(ops) = 2
  /\ ops[1].status = "rejected" /\ ops[1].logged = "error"
  /\ ops[2].task = ops[1].task
  /\ ops[2].status = "resolved" /\ ops[2].logged = "info"
  /\ cronTasks[ops[1].task] = [kind |-> "hourly", running |-> TRUE]

\* HourlyReporter has prepared the data of a report.
Prepared == result.fn = "prepareHourlyReportData" /\ result.status = "fetched"

\* The total usage of a stack.
StackTotal(app) == SeqSum(app.values)

\* C28: the stacks HourlyReporter passes to generateHourlyStackedBarChart
\* all pass the validity check of the renderer: at most 5 stacks, each
\* with as many values as there are hour labels (6) and a positive total,
\* in the order of non-increasing total; an hour whose query failed has
\* the value 0 in every stack.
C28_HourlyStacksValid ==
  Prepared =>
    /\ ValidData(result.hours, result.stacks) = result.stacks
    /\ Len(result.stacks) <= 5
    /\ Len(result.hours) = 6
    /\ \A k \in 1 .. Len(result.stacks) :
         /\ Len(result.stacks[k].values) = Len(result.hours)
         /\ StackTotal(result.stacks[k]) > 0
         /\ k > 1 => StackTotal(result.stacks[k - 1]) >= StackTotal(result.stacks[k])
         /\ \A i \in 1 .. Len(args.answers) :
              args.answers[i].error => result.stacks[k].values[i] = 0

\* A report for six apps with usage in hours of which one could not be
\* queried: five stacks are passed, the largest first, without app C.
C28_Witness ==
  /\ Prepared
  /\ args.answers[1].error
  /\ Len(result.stacks) = 5
  /\ result.stacks[1].appName = "F"
  /\ StackTotal(result.stacks[1]) > StackTotal(result.stacks[2])
  /\ \E k \in 1 .. 5 : result.stacks[k].appName = "A"
  /\ \A k \in 1 .. 5 : result.stacks[k].appName # "C"

\* The date and the hour of a query are those of its instant in the time
\* zone of the process, or those of its instant in UTC.
SameZone(q, offset) ==
  \/ q.date = (q.instant + offset) \div 24 /\ q.hour = (q.instant + offset) % 24
  \/ q.date = q.instant \div 24 /\ q.hour = q.instant % 24

\* C30: every (date, hour) pair HourlyReporter queries, for the hours 0 to
\* 5 before now, the current hour and the previous hour, denotes that one
\* hour, date and hour taken in the same time zone, at every instant and
\* in every time zone of the process.
C30_DateAndHourInOneZone ==
  result.status = "fetched" =>
    \A k \in 1 .. Len(result.queries) : SameZone(result.queries[k], args.offset)

====
